---------------------------- MODULE Spec2Model ----------------------------
(***************************************************************************)
(* Model of the five-channel-analysis pipeline:                            *)
(*   - the bounded crawl (src/src/scraping/daily_scraper.py),              *)
(*   - the occurrence aggregator (src/src/analysis/daily_processor.py),    *)
(*   - the daily job wrapper (src/dags/five_ch_scraping_dag.py),           *)
(*   - the validity gate and the weekly trend processor                    *)
(*     (src/src/analysis/weekly_processor.py),                             *)
(*   - the record store (src/src/database/repositories.py, models.py).     *)
(*                                                                         *)
(* Calendar dates are day numbers; day 0 is a Monday, so weekday(d) is     *)
(* d % 7.  A term's identity in the store is its term_id, the position of  *)
(* its normalized string in the terms table (autoincrement).               *)
(***************************************************************************)
EXTENDS Integers, Sequences, FiniteSets, TLC

VARIABLES
    crawl,          \* one collect_posts_for_date invocation (see CrawlStart)
    \* ---- the record store (committed rows) ----
    terms,          \* terms table: sequence of normalized strings, id = index
    blocked,        \* ids of the terms with is_blocked = true
    dailyStats,     \* daily_term_stats: <<date, term_id>> -> [post_hits, thread_hits]
    dailyMetrics,   \* pipeline_metrics_daily: date -> counters
    runs,           \* pipeline_runs: date -> the run record of that date
    weeklyTrends,   \* weekly_term_trends: <<week_start, term_id>> -> row
    regressions,    \* term_regression_results: term_id -> row
    \* ---- invocations ----
    lastDaily,      \* input and result of the latest process_posts call
    lastJob,        \* outcome of the latest run_daily_collection
    lastWeekly,     \* input and result of the latest weekly run
    calls,          \* how many invocations of each kind were made (bounded)
    probe           \* one application of a pure function: argument and value

storeVars == <<terms, blocked, dailyStats, dailyMetrics, runs, weeklyTrends,
               regressions>>
callVars  == <<lastDaily, lastJob, lastWeekly, calls, probe>>
vars      == <<crawl, storeVars, callVars>>

-----------------------------------------------------------------------------
(* Bounds of the model.                                                    *)

MaxThreads == 3        \* threads on the board listing of the crawl
MaxThreadPosts == 2    \* posts served on one thread page
MaxBatch == 3          \* posts in a batch handed to process_posts on its own
MaxBatchThreads == 2   \* distinct thread paths in such a batch
MaxTokens == 2         \* nouns the tokenizer finds in one post
MaxDirectBatch == 1    \* posts in a batch of a direct call in the pipeline
MaxDailyCalls == 1     \* direct process_posts calls in one behaviour
MaxJobs == 2           \* run_daily_collection invocations in one behaviour
MaxWeeklyCalls == 1    \* weekly runs in one behaviour
MaxHistoryWeeks == 8   \* weeks before the analysed week that may hold a row
MaxOps == 1            \* moderation / operator actions in one behaviour
MaxFaultBatch == 2     \* posts in a batch handed to a store that may fail
MaxJobThreads == 2     \* threads on the board listing of the step-wise job
MaxRerunBatch == 2     \* posts in a batch that is processed twice
MaxExecutionDay == 69  \* latest execution date handed to calculate_week_range
MaxTermLen == 4        \* characters in a string handed to normalize_term

-----------------------------------------------------------------------------
(* Small helpers.                                                          *)

\* Op applied to the value of x: sequential composition of two steps of
\* the code, the first one evaluated once.
Then(x, Op(_)) == CHOOSE r \in {Op(v) : v \in {x}} : TRUE

RECURSIVE SumOver(_, _)
SumOver(S, f) ==
    IF S = {} THEN 0
    ELSE LET x == CHOOSE y \in S : TRUE
         IN  f[x] + SumOver(S \ {x}, f)

SeqsUpTo(S, n) == UNION {[1..k -> S] : k \in 0..n}

-----------------------------------------------------------------------------
(* Term normalizer: src/src/analysis/normalizer.py.                        *)
(* A string is a sequence of characters; a character is named by a short   *)
(* string.  "FW_P" is the full-width letter P, "IDEO_SP" the ideographic   *)
(* space, "CHOON" the long-vowel mark, "WAVE" the wave dash, "FW_TILDE"    *)
(* the full-width tilde, "KUTEN" the Japanese full stop, "KA"/"GA" two     *)
(* kana and "DAKUTEN" the combining voiced sound mark (KA + DAKUTEN is     *)
(* canonically equivalent to GA).                                          *)

\* Compatibility mapping of one character (the K of NFKC).
CompatChar(c) ==
    CASE c = "FW_P"     -> "P"
      [] c = "FW_TILDE" -> "~"
      [] c = "IDEO_SP"  -> " "
      [] OTHER          -> c

\* Canonical composition (the C of NFKC) of adjacent characters.
RECURSIVE Compose(_)
Compose(s) ==
    IF Len(s) < 2 THEN s
    ELSE IF s[1] = "KA" /\ s[2] = "DAKUTEN"
         THEN <<"GA">> \o Compose(SubSeq(s, 3, Len(s)))
         ELSE <<s[1]>> \o Compose(Tail(s))

NFKC(s) == Compose([i \in DOMAIN s |-> CompatChar(s[i])])

LowerChar(c) == IF c = "P" THEN "p" ELSE c

PunctChars == {"_", "-", ".", ",", ":", ";", "/", "\\", "(", ")", "[", "]",
               "!", "?"}

LongVowelChars == {"CHOON", "WAVE", "~"}

SpaceChars == {" ", "TAB"}

RECURSIVE RemoveChars(_, _)
RemoveChars(s, S) ==
    IF s = <<>> THEN <<>>
    ELSE IF s[1] \in S THEN RemoveChars(Tail(s), S)
         ELSE <<s[1]>> \o RemoveChars(Tail(s), S)

\* re.sub(r'\s+', ' ', s)
RECURSIVE CollapseSpaces(_)
CollapseSpaces(s) ==
    IF s = <<>> THEN <<>>
    ELSE IF s[1] \in SpaceChars
         THEN IF Len(s) >= 2 /\ s[2] \in SpaceChars
              THEN CollapseSpaces(Tail(s))
              ELSE <<" ">> \o CollapseSpaces(Tail(s))
         ELSE <<s[1]>> \o CollapseSpaces(Tail(s))

RECURSIVE LStrip(_)
LStrip(s) ==
    IF s # <<>> /\ s[1] \in SpaceChars THEN LStrip(Tail(s)) ELSE s

RECURSIVE RStrip(_)
RStrip(s) ==
    IF s # <<>> /\ s[Len(s)] \in SpaceChars
    THEN RStrip(SubSeq(s, 1, Len(s) - 1)) ELSE s

Strip(s) == RStrip(LStrip(s))

\* A variant that collapses and trims the whitespace before it removes the
\* symbols, so that the removal can bring two spaces together.
normalize_term_trimming_first(term) ==
    IF term = <<>> THEN <<>>
    ELSE LET n1 == NFKC(term)
             n2 == [i \in DOMAIN n1 |-> LowerChar(n1[i])]
             n3 == Strip(CollapseSpaces(n2))
             n4 == RemoveChars(n3, PunctChars)
             n5 == RemoveChars(n4, LongVowelChars)
         IN  IF Len(n5) <= 1 THEN <<>> ELSE n5

\* normalize_term: <<>> is the empty string (reject).
normalize_term(term) ==
    IF term = <<>> THEN <<>>
    ELSE LET n1 == NFKC(term)
             n2 == [i \in DOMAIN n1 |-> LowerChar(n1[i])]
             n3 == RemoveChars(n2, PunctChars)
             n4 == RemoveChars(n3, LongVowelChars)
             n5 == CollapseSpaces(n4)
             n6 == Strip(n5)
         IN  IF Len(n6) <= 1 THEN <<>> ELSE n6

-----------------------------------------------------------------------------
(* Bounded crawl: src/src/scraping/daily_scraper.py, scraper.py, parser.py *)
(*                                                                         *)
(* What the forum serves for a thread is a record                          *)
(*   [fetch |-> "ok" | "fail", divs |-> sequence of post divs]             *)
(* and a post div is [date |-> d, content |-> c]: d is the calendar day    *)
(* the date string begins with (NoDateString: the date span is missing or  *)
(* empty), c the text of the post (a content record, see Tokenizer).       *)

NoDateString == -1

\* A text and what the MeCab tagger does with it: the nouns it yields, and
\* whether it raises after them.
EmptyText == [empty |-> TRUE, nouns |-> <<>>, raises |-> FALSE]
Text(nouns) == [empty |-> FALSE, nouns |-> nouns, raises |-> FALSE]
\* A text on which the tagger raises at once.
BadText == [empty |-> FALSE, nouns |-> <<>>, raises |-> TRUE]
\* A text on which the tagger raises after it yielded these nouns.
RaisingText(nouns) == [empty |-> FALSE, nouns |-> nouns, raises |-> TRUE]

\* _build_date_prefix: the prefix "YYYY/MM/DD(" of a calendar day.
BuildDatePrefix(d) == d

\* post.date.startswith(prefix)
StartsWith(dateString, prefix) == dateString # NoDateString /\ dateString = prefix

\* Scraper.fetch: the page text, or RequestException for a timeout, a
\* connection error or an HTTP error left after the transport retries.
Fetch(served) ==
    IF served.fetch = "ok"
    THEN [kind |-> "text", divs |-> served.divs]
    ELSE [kind |-> "raise", divs |-> <<>>]

\* parse_thread_page: the divs that have both a date and a content.
ParseThreadPage(divs) ==
    SelectSeq(divs, LAMBDA p : p.date # NoDateString /\ ~p.content.empty)

CrawlStart(target, board, served) ==
    [target |-> target, board |-> board, listing |-> served,
     pc |-> "board", idx |-> 1, fetched |-> {}, collected |-> <<>>]

\* The fetch of the board page (lines 91-97).
CrawlBoardStep(c) ==
    LET r == Fetch([fetch |-> c.board, divs |-> <<>>])
    IN  IF r.kind = "raise" THEN [c EXCEPT !.pc = "raised"]
        ELSE IF r.kind = "none" THEN [c EXCEPT !.pc = "returned"]
        ELSE [c EXCEPT !.pc = "threads"]

\* A loop that goes on to the next thread instead (continue for break).
CrawlOnInactiveThreadContinue(c) == [c EXCEPT !.idx = @ + 1]

\* What the loop does after a thread with no target-date and no next-day
\* post (line 136: break).
CrawlOnInactiveThread(c) == [c EXCEPT !.pc = "returned"]

\* An iteration that ends the loop at a thread without target-date posts,
\* whether or not it has posts of the following day.
CrawlThreadStepNeedingTargetPosts(c) ==
    IF c.idx > Len(c.listing) THEN [c EXCEPT !.pc = "returned"]
    ELSE
      LET r  == Fetch(c.listing[c.idx])
          c1 == [c EXCEPT !.fetched = @ \cup {c.idx}]
      IN  IF r.kind = "raise" THEN [c1 EXCEPT !.pc = "raised"]
          ELSE
            LET posts == ParseThreadPage(r.divs)
                target_posts ==
                    SelectSeq(posts, LAMBDA p :
                        StartsWith(p.date, BuildDatePrefix(c.target)))
            IN  IF target_posts = <<>>
                THEN CrawlOnInactiveThread(c1)
                ELSE [c1 EXCEPT
                        !.idx = @ + 1,
                        !.collected = @ \o
                            [i \in DOMAIN target_posts |->
                                [thread_path |-> c.idx,
                                 date |-> target_posts[i].date,
                                 content |-> target_posts[i].content]]]

\* One iteration of "for thread in threads" (lines 100-145).
CrawlThreadStep(c) ==
    IF c.idx > Len(c.listing) THEN [c EXCEPT !.pc = "returned"]
    ELSE
      LET r  == Fetch(c.listing[c.idx])
          c1 == [c EXCEPT !.fetched = @ \cup {c.idx}]
      IN  IF r.kind = "raise" THEN [c1 EXCEPT !.pc = "raised"]
          ELSE IF r.kind = "none" THEN [c1 EXCEPT !.idx = @ + 1]
          ELSE
            LET posts == ParseThreadPage(r.divs)
                date_prefix  == BuildDatePrefix(c.target)
                today_prefix == BuildDatePrefix(c.target + 1)
                target_posts ==
                    SelectSeq(posts, LAMBDA p : StartsWith(p.date, date_prefix))
                today_posts ==
                    SelectSeq(posts, LAMBDA p : StartsWith(p.date, today_prefix))
            IN  IF target_posts = <<>> /\ today_posts = <<>>
                THEN CrawlOnInactiveThread(c1)
                ELSE [c1 EXCEPT
                        !.idx = @ + 1,
                        !.collected = @ \o
                            [i \in DOMAIN target_posts |->
                                [thread_path |-> c.idx,
                                 date |-> target_posts[i].date,
                                 content |-> target_posts[i].content]]]

CrawlStep(c) ==
    IF c.pc = "board" THEN CrawlBoardStep(c) ELSE CrawlThreadStep(c)

CrawlDone(c) == c.pc \in {"returned", "raised"}

\* collect_posts_for_date as a whole: the final state of the invocation.
RECURSIVE RunCrawl(_)
RunCrawl(c) == IF CrawlDone(c) THEN c ELSE RunCrawl(CrawlStep(c))


-----------------------------------------------------------------------------
(* Occurrence aggregator: src/src/analysis/daily_processor.py, with the    *)
(* repositories it calls.  A batch is a sequence of CollectedPost records  *)
(*   [thread_path, date, content].                                         *)

\* NounExtractor.extract_nouns: no nouns for an empty text, otherwise the
\* nouns the tagger yields.  An exception of the tagger is caught inside
\* (lines 70-72) and the nouns found so far are returned: it never raises.
ExtractNouns(content) ==
    IF content.empty THEN <<>> ELSE content.nouns

\* Line 114, self.noun_extractor.extract_nouns(post.content), on the
\* extractor the processor holds, which is always NounExtractor
\* (DailyProcessor.__init__, line 52): the call never raises.
CallNounExtractor(content) ==
    [raised |-> FALSE, nouns |-> ExtractNouns(content)]

\* The store calls process_posts makes (term_repo.get_or_create,
\* daily_stats_repo.upsert, metrics_repo.upsert) are numbered in call
\* order; store_fails is the set of calls on which the store raises.
StoreCallRaises(acc) == (acc.store_calls + 1) \in acc.store_fails

\* A store whose first failure leaves the session unusable: every later
\* call raises as well (a SQLAlchemy session after a failed flush or on an
\* aborted transaction).
SessionFaults(n) == {{}} \cup {k..n : k \in 1..n}

\* TermRepository.get_by_normalized: the term_id, 0 when there is none.
GetByNormalized(tt, normalized) ==
    IF \E i \in DOMAIN tt : tt[i] = normalized
    THEN CHOOSE i \in DOMAIN tt : tt[i] = normalized
    ELSE 0

\* TermRepository.get_or_create: the terms table afterwards and the term_id.
GetOrCreate(tt, normalized) ==
    IF GetByNormalized(tt, normalized) # 0
    THEN [terms |-> tt, term_id |-> GetByNormalized(tt, normalized)]
    ELSE [terms |-> Append(tt, normalized), term_id |-> Len(tt) + 1]

\* term_stats[term_id][field] += 1 on the defaultdict.
BumpStat(stats, id, field) ==
    LET cur == IF id \in DOMAIN stats THEN stats[id]
               ELSE [post_hits |-> 0, thread_hits |-> 0]
        new == [cur EXCEPT ![field] = @ + 1]
    IN  [k \in DOMAIN stats \cup {id} |-> IF k = id THEN new ELSE stats[k]]

\* The keys of the term_stats dict in insertion order: a key is inserted
\* by the first access to term_stats[term_id].
StatOrder(order, stats, id) ==
    IF id \in DOMAIN stats THEN order ELSE Append(order, id)

\* A count per occurrence: the per-post seen-set left out.
CountPostHitPerOccurrence(acc, id) ==
    [acc EXCEPT !.term_stats = BumpStat(@, id, "post_hits"),
                !.stat_order = StatOrder(@, acc.term_stats, id)]

\* Lines 145-148: one count per post and term.
CountPostHit(acc, id) ==
    IF id \notin acc.post_term_ids
    THEN [acc EXCEPT !.post_term_ids = @ \cup {id},
                     !.term_stats = BumpStat(@, id, "post_hits"),
                     !.stat_order = StatOrder(@, acc.term_stats, id)]
    ELSE acc

\* A thread count per occurrence: the per-thread seen-set left out.
CountThreadHitPerOccurrence(acc, id) ==
    [acc EXCEPT !.term_stats = BumpStat(@, id, "thread_hits"),
                !.stat_order = StatOrder(@, acc.term_stats, id)]

\* Lines 150-153: one count per thread and term.
CountThreadHit(acc, id) ==
    IF id \notin acc.thread_term_ids
    THEN [acc EXCEPT !.thread_term_ids = @ \cup {id},
                     !.term_stats = BumpStat(@, id, "thread_hits"),
                     !.stat_order = StatOrder(@, acc.term_stats, id)]
    ELSE acc

\* A loop body that counts the occurrences of a blocked term like any
\* other.
NounStepIgnoringBlocked(acc, noun, blockedIds) ==
    LET a1 == [acc EXCEPT !.total_tokens = @ + 1]
        normalized == normalize_term(noun)
    IN  IF normalized = <<>>
        THEN [a1 EXCEPT !.filtered_tokens = @ + 1]
        ELSE
          LET a2 == [a1 EXCEPT !.store_calls = @ + 1]
          IN  IF StoreCallRaises(a1)
              THEN [a2 EXCEPT !.post_raised = TRUE, !.store_failed = TRUE]
              ELSE
                LET g  == GetOrCreate(a2.terms, normalized)
                    a3 == [a2 EXCEPT !.terms = g.terms]
                IN  CountThreadHit(CountPostHit(a3, g.term_id), g.term_id)

\* The body of "for noun in nouns" (lines 124-153).  An exception of
\* get_or_create (line 136) leaves the loop for the except clause of the
\* post.
NounStep(acc, noun, blockedIds) ==
    LET a1 == [acc EXCEPT !.total_tokens = @ + 1]
        normalized == normalize_term(noun)
    IN  IF normalized = <<>>
        THEN [a1 EXCEPT !.filtered_tokens = @ + 1]
        ELSE
          LET a2 == [a1 EXCEPT !.store_calls = @ + 1]
          IN  IF StoreCallRaises(a1)
              THEN [a2 EXCEPT !.post_raised = TRUE, !.store_failed = TRUE]
              ELSE
                LET g  == GetOrCreate(a2.terms, normalized)
                    a3 == [a2 EXCEPT !.terms = g.terms]
                IN  IF g.term_id \in blockedIds
                    THEN [a3 EXCEPT !.filtered_tokens = @ + 1]
                    ELSE CountThreadHit(CountPostHit(a3, g.term_id),
                                        g.term_id)

RECURSIVE NounLoop(_, _, _)
NounLoop(acc, nouns, blockedIds) ==
    IF nouns = <<>> \/ acc.post_raised THEN acc
    ELSE Then(NounStep(acc, Head(nouns), blockedIds),
              LAMBDA a : NounLoop(a, Tail(nouns), blockedIds))

\* Lines 155-158, "except Exception": the post is counted as a tokenizer
\* failure and the loop goes on with the next post.
OnPostException(acc) ==
    [acc EXCEPT !.post_raised = FALSE, !.tokenize_fail_posts = @ + 1]

\* The body of "for post in thread_post_list" (lines 109-158).
PostStep(acc, post, blockedIds) ==
    LET a1 == [acc EXCEPT !.parsed_posts = @ + 1]
        r  == CallNounExtractor(post.content)
    IN  IF r.raised THEN OnPostException(a1)
        ELSE IF r.nouns = <<>> THEN a1
        ELSE Then(NounLoop([a1 EXCEPT !.post_term_ids = {}], r.nouns,
                           blockedIds),
                  LAMBDA a2 : IF a2.post_raised THEN OnPostException(a2)
                              ELSE a2)

RECURSIVE PostLoop(_, _, _)
PostLoop(acc, posts, blockedIds) ==
    IF posts = <<>> \/ acc.raised THEN acc
    ELSE Then(PostStep(acc, Head(posts), blockedIds),
              LAMBDA a : PostLoop(a, Tail(posts), blockedIds))

\* Lines 90-92: the posts grouped by thread_path, the groups in the order
\* in which each thread first appears (dict insertion order).
RECURSIVE ThreadOrder(_, _)
ThreadOrder(posts, seen) ==
    IF posts = <<>> THEN <<>>
    ELSE IF Head(posts).thread_path \in seen
         THEN ThreadOrder(Tail(posts), seen)
         ELSE <<Head(posts).thread_path>>
              \o ThreadOrder(Tail(posts), seen \cup {Head(posts).thread_path})

\* A grouping by maximal runs of consecutive posts of one thread.
RECURSIVE ThreadGroupsByRun(_)
ThreadGroupsByRun(posts) ==
    IF posts = <<>> THEN <<>>
    ELSE LET rest == ThreadGroupsByRun(Tail(posts))
         IN  IF rest # <<>> /\ rest[1][1].thread_path = Head(posts).thread_path
             THEN <<(<<Head(posts)>> \o rest[1])>> \o Tail(rest)
             ELSE <<(<<Head(posts)>>)>> \o rest

ThreadGroups(posts) ==
    LET order == ThreadOrder(posts, {})
    IN  [i \in DOMAIN order |->
            SelectSeq(posts, LAMBDA p : p.thread_path = order[i])]

\* "for thread_path, thread_post_list in thread_posts.items()" (105-158).
RECURSIVE ThreadLoop(_, _, _)
ThreadLoop(acc, groups, blockedIds) ==
    IF groups = <<>> \/ acc.raised THEN acc
    ELSE Then(PostLoop([acc EXCEPT !.thread_term_ids = {}], Head(groups),
                       blockedIds),
              LAMBDA a : ThreadLoop(a, Tail(groups), blockedIds))

\* DailyProcessorMetrics.filtered_rate, as the fraction num/den.
\* A rate of the tokens that were kept, not of those filtered.
FilteredRateOfKeptTokens(total_tokens, filtered_tokens) ==
    IF total_tokens = 0 THEN [num |-> 0, den |-> 1]
    ELSE [num |-> total_tokens - filtered_tokens, den |-> total_tokens]

FilteredRate(total_tokens, filtered_tokens) ==
    IF total_tokens = 0 THEN [num |-> 0, den |-> 1]
    ELSE [num |-> filtered_tokens, den |-> total_tokens]

\* DailyTermStatsRepository.upsert for every term of term_stats (160-169):
\* an existing row gets the new counts, a missing row is created.
UpsertDailyStats(ds, d, stats) ==
    LET keys == {<<d, id>> : id \in DOMAIN stats}
    IN  [k \in DOMAIN ds \cup keys |->
            IF k \in keys THEN stats[k[2]] ELSE ds[k]]

\* An upsert that leaves an existing record as it is.
UpsertDailyMetricsKeepsFirst(dm, d, rec) ==
    IF d \in DOMAIN dm THEN dm
    ELSE [k \in DOMAIN dm \cup {d} |-> IF k = d THEN rec ELSE dm[k]]

\* PipelineMetricsDailyRepository.upsert (one record per date and board).
UpsertDailyMetrics(dm, d, rec) ==
    [k \in DOMAIN dm \cup {d} |-> IF k = d THEN rec ELSE dm[k]]

NoRunId == 0

\* "for term_id, stats in term_stats.items()" (lines 160-169) on
\* st = [dailyStats, store_calls, store_fails, raised]: one upsert call per
\* term in insertion order; a call that raises ends process_posts.
RECURSIVE UpsertStatsLoop(_, _, _, _)
UpsertStatsLoop(st, order, d, stats) ==
    IF order = <<>> \/ st.raised THEN st
    ELSE LET id == Head(order)
             s1 == [st EXCEPT !.store_calls = @ + 1]
         IN  IF StoreCallRaises(st)
             THEN [s1 EXCEPT !.raised = TRUE]
             ELSE Then([s1 EXCEPT !.dailyStats =
                          UpsertDailyStats(@, d, [k \in {id} |-> stats[id]])],
                       LAMBDA s2 : UpsertStatsLoop(s2, Tail(order), d, stats))

\* Lines 160-190 of process_posts, after the loops ended in acc: the
\* upserts of the counted terms and of the metrics record.
SaveCounts(acc, posts, target_date, run_id, ds, dm) ==
    LET st0 == [dailyStats |-> ds, store_calls |-> acc.store_calls,
                store_fails |-> acc.store_fails, raised |-> acc.raised]
        metrics == [run_id |-> run_id,
                    fetched_threads |-> Len(ThreadOrder(posts, {})),
                    fetched_posts |-> Len(posts),
                    parsed_posts |-> acc.parsed_posts,
                    parse_fail_posts |-> 0,
                    tokenize_fail_posts |-> acc.tokenize_fail_posts,
                    total_tokens |-> acc.total_tokens,
                    filtered_tokens |-> acc.filtered_tokens,
                    filtered_rate |-> FilteredRate(acc.total_tokens,
                                                   acc.filtered_tokens)]
    IN  Then(UpsertStatsLoop(st0, acc.stat_order, target_date,
                             acc.term_stats),
             LAMBDA up :
               LET raised == up.raised \/ StoreCallRaises(up)
               IN  [raised |-> raised,
                    store_failed |-> acc.store_failed \/ raised,
                    terms |-> acc.terms,
                    term_stats |-> acc.term_stats,
                    dailyStats |-> up.dailyStats,
                    dailyMetrics |->
                        IF raised THEN dm
                        ELSE UpsertDailyMetrics(dm, target_date, metrics),
                    metrics |-> metrics])

\* DailyProcessor.process_posts on a store that raises on the calls of
\* `fails`: whether it raised, the rows of the session when it returned or
\* raised, and the metrics object.  (The wall-clock duration is left
\* out.)
ProcessPosts(posts, target_date, run_id, tt, blockedIds, ds, dm, fails) ==
    LET acc0 == [terms |-> tt, term_stats |-> <<>>, stat_order |-> <<>>,
                 post_term_ids |-> {}, thread_term_ids |-> {},
                 parsed_posts |-> 0, tokenize_fail_posts |-> 0,
                 total_tokens |-> 0, filtered_tokens |-> 0,
                 store_calls |-> 0, store_fails |-> fails,
                 store_failed |-> FALSE, post_raised |-> FALSE,
                 raised |-> FALSE]
    IN  Then(ThreadLoop(acc0, ThreadGroups(posts), blockedIds),
             LAMBDA acc : SaveCounts(acc, posts, target_date, run_id, ds, dm))


-----------------------------------------------------------------------------
(* Run records: PipelineRun (src/src/database/models.py) and               *)
(* PipelineRunRepository (src/src/database/repositories.py).               *)
(* A row of pipeline_runs is [run_id, status, is_recovered]; the table is  *)
(* a function from target_date (one board key) to its row.                 *)

\* The columns the PipelineRun class maps (models.py, lines 30-53).  The
\* is_recovered column, added to the table by migration 79f81805fb52, is
\* not among them.
PipelineRunMapped ==
    {"run_id", "target_date", "board_key", "status", "started_at",
     "finished_at", "config", "code_version", "created_at"}

\* PipelineRunRepository.get_by_date_and_board: the object the ORM loads,
\* with the attributes the class maps.  is_recovered is "true" or "false"
\* when the object carries the attribute and "absent" when it does not.
GetRunByDateAndBoard(rr, d) ==
    IF d \in DOMAIN rr
    THEN [found |-> TRUE, status |-> rr[d].status,
          is_recovered |-> IF "is_recovered" \in PipelineRunMapped
                           THEN (IF rr[d].is_recovered THEN "true" ELSE "false")
                           ELSE "absent"]
    ELSE [found |-> FALSE, status |-> "not_found", is_recovered |-> "absent"]

\* A create on a table without the unique constraint on (target_date,
\* board_key): the new record takes the place of the date.
CreateRunReplacing(rr, d, run_id) ==
    [raised |-> FALSE,
     runs |-> [k \in DOMAIN rr \cup {d} |->
                 IF k = d THEN [run_id |-> run_id, status |-> "partial",
                                is_recovered |-> FALSE]
                 ELSE rr[k]]]

\* PipelineRunRepository.create with the uniqueness constraint on
\* (target_date, board_key): the table afterwards, or IntegrityError.
CreateRun(rr, d, run_id) ==
    IF d \in DOMAIN rr
    THEN [raised |-> TRUE, runs |-> rr]
    ELSE [raised |-> FALSE,
          runs |-> [k \in DOMAIN rr \cup {d} |->
                      IF k = d THEN [run_id |-> run_id, status |-> "partial",
                                     is_recovered |-> FALSE]
                      ELSE rr[k]]]

\* PipelineRunRepository.update_status: the row with this run_id, if any.
UpdateStatus(rr, run_id, status) ==
    [k \in DOMAIN rr |->
        IF rr[k].run_id = run_id THEN [rr[k] EXCEPT !.status = status]
        ELSE rr[k]]

-----------------------------------------------------------------------------
(* Validity gate and weekly trend processor:                               *)
(* src/src/analysis/weekly_processor.py, statistics.py.                    *)

\* A range that is the week of the execution date itself.
CalculateWeekRangeOfSameWeek(execution_date) ==
    LET days_since_monday == execution_date % 7
        week_start == execution_date - days_since_monday
    IN  [week_start |-> week_start, week_end |-> week_start + 6]

\* WeeklyProcessor.calculate_week_range (date.weekday() is d % 7).
CalculateWeekRange(execution_date) ==
    LET days_since_monday == execution_date % 7
        week_start == execution_date - (days_since_monday + 7)
    IN  [week_start |-> week_start, week_end |-> week_start + 6]

\* The test of lines 86-88 on one loaded run object: "valid", "invalid",
\* or "raise" (AttributeError: the object has no attribute is_recovered).
GateVerdict(run) ==
    IF ~run.found THEN "invalid"
    ELSE IF run.status = "success" THEN "valid"
    ELSE IF run.is_recovered = "absent" THEN "raise"
    ELSE IF run.is_recovered = "true" THEN "valid"
    ELSE "invalid"

\* WeeklyProcessor.validate_data_collection.
ValidateDataCollection(rr, start_date, end_date) ==
    LET verdict == [d \in start_date..end_date |->
                        GateVerdict(GetRunByDateAndBoard(rr, d))]
    IN  [raised |-> \E d \in start_date..end_date : verdict[d] = "raise",
         valid_dates |-> {d \in start_date..end_date : verdict[d] = "valid"}]

\* A selection of rows that keeps every date of the week, valid or not.
WeeklyRowsOfAllDates(ds, start_date, end_date, valid_dates) ==
    {k \in DOMAIN ds : k[1] >= start_date /\ k[1] <= end_date}

\* DailyTermStatsRepository.get_weekly_aggregation: per term_id the sums of
\* post_hits and thread_hits over the rows that pass the filters.
WeeklyRows(ds, start_date, end_date, valid_dates) ==
    {k \in DOMAIN ds : /\ k[1] >= start_date
                       /\ k[1] <= end_date
                       /\ k[1] \in valid_dates}

GetWeeklyAggregation(ds, start_date, end_date, valid_dates) ==
    LET rows == WeeklyRows(ds, start_date, end_date, valid_dates)
        ids  == {k[2] : k \in rows}
    IN  [id \in ids |->
            LET mine == {k \in rows : k[2] = id}
            IN  [post_hits |-> SumOver(mine, [k \in mine |-> ds[k].post_hits]),
                 thread_hits |->
                     SumOver(mine, [k \in mine |-> ds[k].thread_hits])]]

\* Lines 153-160: fetched_posts summed over the valid dates that have a
\* metrics record.
WeeklyTotalPosts(dm, valid_dates) ==
    LET have == valid_dates \cap DOMAIN dm
    IN  SumOver(have, [d \in have |-> dm[d].fetched_posts])

\* ---- fractions: a rate is [num, den] with den > 0 ----
FracAdd(a, b) == [num |-> a.num * b.den + b.num * a.den, den |-> a.den * b.den]
FracEq(a, b) == a.num * b.den = b.num * a.den
FracLess(a, b) == a.num * b.den < b.num * a.den

RECURSIVE FracSum(_)
FracSum(rates) ==
    IF rates = <<>> THEN [num |-> 0, den |-> 1]
    ELSE FracAdd(Head(rates), FracSum(Tail(rates)))

\* Lines 174-176.
AppearanceRate(post_hits, total_posts) ==
    IF total_posts > 0 THEN [num |-> post_hits, den |-> total_posts]
    ELSE [num |-> 0, den |-> 1]

\* calculate_appearance_rate_ci, kept to what the store sees of it: "null"
\* when total_posts is 0, bounds inside [0, 1] when post_hits <= total_posts
\* ("in_range"), and no such bounds otherwise ("out_of_range": the beta
\* quantile of a non-positive shape parameter is not a number; the rate of
\* such a row is above 1 in any case).
AppearanceRateCI(post_hits, total_posts) ==
    IF total_posts = 0 THEN "null"
    ELSE IF post_hits <= total_posts THEN "in_range"
    ELSE "out_of_range"

\* WeeklyTermTrendsRepository.get_by_term_and_week_range, ascending.
WeeklyRange(wt, term_id, start_week, end_week) ==
    LET ks == {k \in DOMAIN wt : /\ k[2] = term_id
                                 /\ k[1] >= start_week
                                 /\ k[1] <= end_week}
        RECURSIVE Asc(_)
        Asc(S) == IF S = {} THEN <<>>
                  ELSE LET m == CHOOSE x \in S : \A y \in S : x[1] <= y[1]
                       IN  <<m>> \o Asc(S \ {m})
    IN  Asc(ks)

\* The sides on which the floating-point mean of a history may fall of a
\* current rate that equals the exact mean: below it ("pos"), on it
\* ("zero") or above it ("neg").
MeanRoundings == {"neg", "zero", "pos"}

\* calculate_zscore, kept to its sign: "null", "zero", "pos" or "neg".
\* The standard deviation is below 1e-10 exactly when all historical rates
\* are equal, and the result is then 0.0.  When the current rate equals
\* the exact mean, the floating-point mean falls on it or beside it and the
\* z-score is 0.0 or a number of either sign (mean_rounding).
CalculateZscore(current_rate, historical_rates, mean_rounding) ==
    IF Len(historical_rates) < 7 THEN "null"
    ELSE IF \A i \in DOMAIN historical_rates :
                FracEq(historical_rates[i], historical_rates[1])
         THEN "zero"
         ELSE LET n == Len(historical_rates)
                  total == FracSum(historical_rates)
                  mean == [num |-> total.num, den |-> total.den * n]
              IN  IF FracEq(current_rate, mean) THEN mean_rounding
                  ELSE IF FracLess(mean, current_rate) THEN "pos" ELSE "neg"

\* A history read from the 8 weeks before the current one.
CalculateZscoreForTermEightBack(wt, term_id, current_week_start, current_rate, mean_rounding) ==
    LET weekly_data == WeeklyRange(wt, term_id, current_week_start - 8 * 7,
                                   current_week_start)
        past == SelectSeq(weekly_data, LAMBDA k : k[1] < current_week_start)
        historical_rates == [i \in DOMAIN past |-> wt[past[i]].appearance_rate]
    IN  IF Len(historical_rates) < 7 THEN "null"
        ELSE CalculateZscore(current_rate, historical_rates, mean_rounding)

\* WeeklyProcessor._calculate_zscore_for_term.
CalculateZscoreForTerm(wt, term_id, current_week_start, current_rate, mean_rounding) ==
    LET eight_weeks_ago == current_week_start - 7 * 7
        weekly_data == WeeklyRange(wt, term_id, eight_weeks_ago,
                                   current_week_start)
        past == SelectSeq(weekly_data, LAMBDA k : k[1] < current_week_start)
        historical_rates == [i \in DOMAIN past |-> wt[past[i]].appearance_rate]
    IN  IF Len(historical_rates) < 7 THEN "null"
        ELSE CalculateZscore(current_rate, historical_rates, mean_rounding)

\* The sign of the least-squares slope of the rates y against the weeks
\* x: the sign of the sum of (n * x[i] - sum of x) * y[i].
RegressionSlopeSign(weeks, rates) ==
    LET n == Len(rates)
        sum_weeks == SumOver(DOMAIN weeks, weeks)
        weighted == [i \in DOMAIN rates |->
                        [num |-> (n * weeks[i] - sum_weeks) * rates[i].num,
                         den |-> rates[i].den]]
        total == FracSum(weighted)
    IN  IF total.num = 0 THEN "zero" ELSE IF total.num > 0 THEN "pos" ELSE "neg"

\* model.pvalues[1] of a fit on weeks that are not all equal, kept to what
\* the store sees of it.  On 2
\* points the fit has no residual degrees of freedom and the p-value is
\* NaN ("nan") whatever the rates are.  For rates that are all 0 the fit
\* is exact with slope 0, the t statistic is 0/0 and the p-value is NaN.
\* For rates that are all equal and not 0 the floating-point fit is either
\* exact as well (exact_fit, "nan") or leaves rounding residuals and a
\* p-value inside [0, 1] ("in_range").
RegressionPValue(rates, exact_fit) ==
    IF Len(rates) <= 2 THEN "nan"
    ELSE IF \A i \in DOMAIN rates : rates[i].num = 0 THEN "nan"
    ELSE IF \A i \in DOMAIN rates : FracEq(rates[i], rates[1])
         THEN IF exact_fit THEN "nan" ELSE "in_range"
         ELSE "in_range"

\* perform_linear_regression: None for lists of different lengths or of
\* fewer than 2 points, otherwise the fit of the rates on the weeks, kept
\* to the sign of the slope and the kind of the p-value.  For weeks that
\* are all equal and not 0, add_constant finds a constant column and adds
\* none, the fit has one parameter, params[1] raises and the except clause
\* returns None.  For weeks that are all 0 the slope is 0 with standard
\* error 0 and the p-value is NaN.
PerformLinearRegression(weeks, appearance_rates, exact_fit) ==
    IF Len(weeks) # Len(appearance_rates) \/ Len(weeks) < 2
    THEN [none |-> TRUE, slope |-> "zero", p_value |-> "nan"]
    ELSE IF \A i \in DOMAIN weeks : weeks[i] = weeks[1]
    THEN IF weeks[1] # 0
         THEN [none |-> TRUE, slope |-> "zero", p_value |-> "nan"]
         ELSE [none |-> FALSE, slope |-> "zero", p_value |-> "nan"]
    ELSE [none |-> FALSE,
          slope |-> RegressionSlopeSign(weeks, appearance_rates),
          p_value |-> RegressionPValue(appearance_rates, exact_fit)]

\* The check constraint of term_regression_results (models.py, lines
\* 219-223): p_value >= 0 AND p_value <= 1.
TermRegressionChecksHold(result) == result.p_value # "nan"

\* A regression that is stored from any window of at least 2 rows.
PerformRegressionOnPartialWindow(wt, rg, term_id, current_week_start, exact_fit) ==
    LET eight_weeks_ago == current_week_start - 7 * 7
        weekly_data == WeeklyRange(wt, term_id, eight_weeks_ago,
                                   current_week_start)
    IN  IF Len(weekly_data) < 2 THEN [rejected |-> FALSE, regressions |-> rg]
        ELSE LET rates == [i \in DOMAIN weekly_data |->
                              wt[weekly_data[i]].appearance_rate]
                 row == [slope |-> RegressionSlopeSign(
                                      [i \in DOMAIN rates |-> i - 1], rates),
                         analysis_start_date |-> eight_weeks_ago,
                         analysis_end_date |-> current_week_start + 6]
             IN  [rejected |-> FALSE,
                  regressions |-> [k \in DOMAIN rg \cup {term_id} |->
                                      IF k = term_id THEN row ELSE rg[k]]]

\* WeeklyProcessor._perform_regression_analysis: the regression table
\* afterwards, and whether the database rejected the upsert.
PerformRegressionAnalysis(wt, rg, term_id, current_week_start, exact_fit) ==
    LET eight_weeks_ago == current_week_start - 7 * 7
        weekly_data == WeeklyRange(wt, term_id, eight_weeks_ago,
                                   current_week_start)
        kept == [rejected |-> FALSE, regressions |-> rg]
    IN  IF Len(weekly_data) < 8 THEN kept
        ELSE LET weeks == [i \in 1..8 |-> i - 1]
                 rates == [i \in DOMAIN weekly_data |->
                              wt[weekly_data[i]].appearance_rate]
                 regression_result == PerformLinearRegression(weeks, rates,
                                                              exact_fit)
                 row == [slope |-> regression_result.slope,
                         analysis_start_date |-> eight_weeks_ago,
                         analysis_end_date |-> current_week_start + 6]
             IN  IF regression_result.none THEN kept
                 ELSE IF ~TermRegressionChecksHold(regression_result)
                 THEN [rejected |-> TRUE, regressions |-> rg]
                 ELSE [rejected |-> FALSE,
                       regressions |-> [k \in DOMAIN rg \cup {term_id} |->
                                           IF k = term_id THEN row ELSE rg[k]]]

\* The check constraints of weekly_term_trends (models.py, lines 169-184).
WeeklyTrendChecksHold(row) ==
    /\ row.post_hits >= 0
    /\ row.total_posts >= 0
    /\ row.appearance_rate.num >= 0
    /\ row.appearance_rate.num <= row.appearance_rate.den
    /\ row.ci # "out_of_range"

\* A loop body whose except clause does not count the term.
WeeklyTermStepUncounted(sess, term_id, post_hits, week_start, total_posts, rounding) ==
    IF sess.deactive
    THEN sess
    ELSE
      LET rate == AppearanceRate(post_hits, total_posts)
          row == [post_hits |-> post_hits, total_posts |-> total_posts,
                  appearance_rate |-> rate,
                  ci |-> AppearanceRateCI(post_hits, total_posts),
                  zscore |-> CalculateZscoreForTerm(
                                 sess.weeklyTrends, term_id, week_start, rate,
                                 IF term_id \in DOMAIN rounding.mean
                                 THEN rounding.mean[term_id] ELSE "zero")]
      IN  IF ~WeeklyTrendChecksHold(row)
          THEN [sess EXCEPT !.deactive = TRUE]
          ELSE
            LET key == <<week_start, term_id>>
                wt == [k \in DOMAIN sess.weeklyTrends \cup {key} |->
                          IF k = key THEN row ELSE sess.weeklyTrends[k]]
                reg == PerformRegressionAnalysis(wt, sess.regressions, term_id,
                                                 week_start, rounding.exact_fit)
            IN  IF reg.rejected
                THEN [sess EXCEPT !.deactive = TRUE]
                ELSE [sess EXCEPT !.weeklyTrends = wt,
                                  !.regressions = reg.regressions,
                                  !.processed_terms = @ + 1]

\* The body of "for term_data in weekly_aggregation" (lines 168-218) on the
\* session sess = [weeklyTrends, regressions, deactive, processed_terms,
\* error_terms].  A flush that the database rejects (a weekly row or a
\* regression row that breaks a check constraint) rolls the transaction
\* back and leaves the session unusable (deactive) until a rollback, so
\* every later query of the run raises as well.  rounding is what the
\* floating-point arithmetic of the run does: exact_fit for the regression
\* of a flat window, mean[term_id] for the z-score of a term whose rate
\* equals the mean of its history.
WeeklyTermStep(sess, term_id, post_hits, week_start, total_posts, rounding) ==
    IF sess.deactive
    THEN [sess EXCEPT !.error_terms = @ + 1]
    ELSE
      LET rate == AppearanceRate(post_hits, total_posts)
          row == [post_hits |-> post_hits, total_posts |-> total_posts,
                  appearance_rate |-> rate,
                  ci |-> AppearanceRateCI(post_hits, total_posts),
                  zscore |-> CalculateZscoreForTerm(
                                 sess.weeklyTrends, term_id, week_start, rate,
                                 IF term_id \in DOMAIN rounding.mean
                                 THEN rounding.mean[term_id] ELSE "zero")]
      IN  IF ~WeeklyTrendChecksHold(row)
          THEN [sess EXCEPT !.deactive = TRUE, !.error_terms = @ + 1]
          ELSE
            LET key == <<week_start, term_id>>
                wt == [k \in DOMAIN sess.weeklyTrends \cup {key} |->
                          IF k = key THEN row ELSE sess.weeklyTrends[k]]
                reg == PerformRegressionAnalysis(wt, sess.regressions, term_id,
                                                 week_start, rounding.exact_fit)
            IN  IF reg.rejected
                THEN [sess EXCEPT !.deactive = TRUE, !.error_terms = @ + 1]
                ELSE [sess EXCEPT !.weeklyTrends = wt,
                                  !.regressions = reg.regressions,
                                  !.processed_terms = @ + 1]

RECURSIVE WeeklyTermLoop(_, _, _, _, _, _)
WeeklyTermLoop(sess, order, agg, week_start, total_posts, rounding) ==
    IF order = <<>> THEN sess
    ELSE WeeklyTermLoop(
             WeeklyTermStep(sess, Head(order), agg[Head(order)].post_hits,
                            week_start, total_posts, rounding),
             Tail(order), agg, week_start, total_posts, rounding)

\* The orders in which the grouped query may return the terms.
Orders(S) ==
    {o \in [1..Cardinality(S) -> S] : \A i, j \in DOMAIN o : i # j => o[i] # o[j]}

Week(week_start) == week_start..(week_start + 6)

\* WeeklyProcessor.process_weekly_analysis, given the order in which the
\* aggregation lists the terms: what it returns and the session it leaves.
ProcessWeeklyAnalysis(execution_date, order, rounding, rr, ds, dm, wt, rg) ==
    LET range == CalculateWeekRange(execution_date)
        week_start == range.week_start
        week_end == range.week_end
        gate == ValidateDataCollection(rr, week_start, week_end)
        valid_dates == gate.valid_dates
        invalid_dates == {d \in Week(week_start) : d \notin valid_dates}
        agg == GetWeeklyAggregation(ds, week_start, week_end, valid_dates)
        total_posts == WeeklyTotalPosts(dm, valid_dates)
        sess0 == [weeklyTrends |-> wt, regressions |-> rg, deactive |-> FALSE,
                  processed_terms |-> 0, error_terms |-> 0]
        base == [execution_date |-> execution_date, week_start |-> week_start,
                 raised |-> FALSE, valid_dates |-> valid_dates,
                 invalid_dates |-> invalid_dates, aggregation |-> <<>>,
                 total_posts |-> 0, session |-> sess0]
    IN  IF gate.raised
        THEN [base EXCEPT !.raised = TRUE, !.valid_dates = {},
                          !.invalid_dates = {}]
        ELSE IF valid_dates = {} THEN base
        ELSE [base EXCEPT
                 !.aggregation = agg,
                 !.total_posts = total_posts,
                 !.session = WeeklyTermLoop(sess0, order, agg, week_start,
                                            total_posts, rounding)]


-----------------------------------------------------------------------------
(* Inputs.                                                                 *)

SurfPy == <<"P", "y">>      \* normalizes to "py"
SurfGo == <<"g", "o">>      \* normalizes to "go"
SurfY  == <<"y">>           \* one character: rejected by the normalizer

Surfaces == {SurfPy, SurfGo, SurfY}

OkPage(divs) == [fetch |-> "ok", divs |-> divs]
FailPage == [fetch |-> "fail", divs |-> <<>>]
Div(d, content) == [date |-> d, content |-> content]

\* ---- the crawl on its own ----
CrawlDates == {7}

CrawlDivs(t) ==
    {Div(d, Text(<<SurfPy>>)) : d \in {NoDateString, t - 1, t, t + 1}}
    \cup {Div(t, EmptyText)}

ServedPages(t) ==
    {FailPage} \cup {OkPage(ds) : ds \in SeqsUpTo(CrawlDivs(t), MaxThreadPosts)}

CrawlListings(t) == SeqsUpTo(ServedPages(t), MaxThreads)

\* ---- process_posts on its own ----
DailyDates == {7}

RichContents ==
    {BadText, RaisingText(<<SurfPy>>)}
    \cup {Text(n) : n \in SeqsUpTo(Surfaces, MaxTokens)}

RichPosts ==
    {[thread_path |-> tp, date |-> d, content |-> c] :
        d \in DailyDates, tp \in 1..MaxBatchThreads, c \in RichContents}

RichBatches == SeqsUpTo(RichPosts, MaxBatch)

InitialTerms == {<<>>, <<normalize_term(SurfPy)>>,
                 <<normalize_term(SurfGo), normalize_term(SurfPy)>>}

\* ---- the pipeline ----
JobDates == {6, 7}
DirectDates == {6, 8}
ExecDates == {7, 16}

JobListings(t) ==
    { <<>>,
      <<OkPage(<<Div(t, Text(<<SurfPy, SurfGo>>)), Div(t, Text(<<SurfPy>>))>>),
        OkPage(<<Div(t + 1, Text(<<SurfGo>>))>>)>>,
      <<OkPage(<<Div(t, Text(<<SurfGo>>))>>), FailPage>> }

DirectPosts(d) ==
    {[thread_path |-> 1, date |-> d, content |-> Text(<<s>>)] :
        s \in {SurfPy, SurfGo}}

DirectBatches(d) == SeqsUpTo(DirectPosts(d), MaxDirectBatch)

\* ---- the pure functions on their own ----
ExecutionDays == 0..MaxExecutionDay

TermChars == {"FW_P", "y", "-", "FW_TILDE", "CHOON", " ", "IDEO_SP", "TAB",
              "KA", "DAKUTEN", "KUTEN"}

TermStrings == SeqsUpTo(TermChars, MaxTermLen)

\* ---- process_posts twice on one batch ----
RerunBatches == SeqsUpTo(RichPosts, MaxRerunBatch)

\* ---- process_posts on a store that may fail ----
FaultPosts ==
    {[thread_path |-> 1, date |-> d, content |-> c] :
        d \in DailyDates,
        c \in {Text(<<SurfPy>>), Text(<<SurfGo, SurfPy>>), Text(<<SurfY>>),
               BadText}}

FaultBatches == SeqsUpTo(FaultPosts, MaxFaultBatch) \ {<<>>}

\* No batch of n posts makes more store calls than this: a get_or_create
\* per token, an upsert per counted term, the metrics upsert.
StoreCallsOf(posts) == 2 * MaxTokens * Len(posts) + 1

\* ---- the daily job, step by step ----
StepJobDates == {7}

StepJobDivs(t) ==
    {Div(t, Text(<<SurfPy>>)), Div(t, Text(<<SurfY, SurfGo>>)),
     Div(t, BadText), Div(t + 1, Text(<<SurfGo>>))}

StepJobPages(t) ==
    {FailPage} \cup {OkPage(ds) : ds \in SeqsUpTo(StepJobDivs(t), MaxThreadPosts)}

StepJobListings(t) == SeqsUpTo(StepJobPages(t), MaxJobThreads)

\* ---- the weekly run over a history of weekly rows ----
\* The week that is analysed starts on CurrentWeek; the k-th week before it
\* starts on WeekBefore(k).
CurrentWeek == 7 * (MaxHistoryWeeks + 1)
WeekBefore(k) == CurrentWeek - 7 * k

\* The post hits (num) of the term and the total posts (den) of the k-th
\* week before the current one.  A week has hits and no posts when a day
\* of it was aggregated again with an empty batch: the rows of the first
\* aggregation stay and fetched_posts becomes 0.  The last profile has
\* rates 1, 0, 1, 0, 1, 0, 1/2 over the 7 weeks before the current one:
\* their mean is 1/2.
RateProfiles ==
    { [k \in 0..(MaxHistoryWeeks + 1) |-> [num |-> 1, den |-> 2]],
      [k \in 0..(MaxHistoryWeeks + 1) |-> [num |-> 1 + (k % 2), den |-> 2]],
      [k \in 0..(MaxHistoryWeeks + 1) |-> [num |-> 1, den |-> k + 1]],
      [k \in 0..(MaxHistoryWeeks + 1) |-> [num |-> 1, den |-> 0]],
      [k \in 0..(MaxHistoryWeeks + 1) |->
          IF k >= 7 THEN [num |-> 1, den |-> 2]
          ELSE IF k % 2 = 1 THEN [num |-> 1, den |-> 1]
          ELSE [num |-> 1, den |-> 0]] }

\* weekly_term_trends rows of term 1 for the weeks of `present`, as earlier
\* weekly runs left them.
HistoryRows(present, profile) ==
    [key \in {<<WeekBefore(k), 1>> : k \in present} |->
        LET k == (CurrentWeek - key[1]) \div 7
        IN  [post_hits |-> profile[k].num, total_posts |-> profile[k].den,
             appearance_rate |-> AppearanceRate(profile[k].num, profile[k].den),
             ci |-> AppearanceRateCI(profile[k].num, profile[k].den),
             zscore |-> "null"]]

\* A regression result stored by a weekly run of an earlier week.
OldRegression ==
    [slope |-> "neg",
     analysis_start_date |-> WeekBefore(MaxHistoryWeeks + 1) - 7 * 7,
     analysis_end_date |-> WeekBefore(MaxHistoryWeeks + 1) + 6]

\* The posts of the one collected day of the current week.
WeeklyDayBatches ==
    { <<[thread_path |-> 1, date |-> CurrentWeek,
         content |-> Text(<<SurfPy>>)]>>,
      <<[thread_path |-> 1, date |-> CurrentWeek,
         content |-> Text(<<SurfPy, SurfGo>>)],
        [thread_path |-> 2, date |-> CurrentWeek,
         content |-> Text(<<SurfGo>>)]>> }

-----------------------------------------------------------------------------
(* State and actions.                                                      *)

IdleCrawl == [target |-> 0, board |-> "ok", listing |-> <<>>,
              pc |-> "returned", idx |-> 1, fetched |-> {}, collected |-> <<>>]

NoCalls == [daily |-> 0, jobs |-> 0, weekly |-> 0, ops |-> 0]

EmptyStore ==
    /\ terms = <<>>
    /\ blocked = {}
    /\ dailyStats = <<>>
    /\ dailyMetrics = <<>>
    /\ runs = <<>>
    /\ weeklyTrends = <<>>
    /\ regressions = <<>>

NoInvocation ==
    /\ lastDaily = [kind |-> "none"]
    /\ lastJob = [kind |-> "none"]
    /\ lastWeekly = [kind |-> "none"]
    /\ calls = NoCalls
    /\ probe = [kind |-> "none"]

\* ---- collect_posts_for_date, step by step ----
CrawlFetchBoard ==
    /\ crawl.pc = "board"
    /\ crawl' = CrawlBoardStep(crawl)
    /\ UNCHANGED <<storeVars, callVars>>

CrawlVisitThread ==
    /\ crawl.pc = "threads"
    /\ crawl' = CrawlThreadStep(crawl)
    /\ UNCHANGED <<storeVars, callVars>>

InitCrawl ==
    /\ \E t \in CrawlDates, b \in {"ok", "fail"} :
         \E served \in CrawlListings(t) : crawl = CrawlStart(t, b, served)
    /\ EmptyStore
    /\ NoInvocation

NextCrawl == CrawlFetchBoard \/ CrawlVisitThread

SpecCrawl == InitCrawl /\ [][NextCrawl]_vars

\* ---- process_posts called on a session that is then committed ----
\* The rows of the three tables process_posts writes.
DailyTables(tt, ds, dm) == [terms |-> tt, dailyStats |-> ds, dailyMetrics |-> dm]

\* A session that commits what is pending whether or not the block raised.
SessionCommitsAlways(raised, before, pending) == pending

\* get_session around a block: commit when the block returns, rollback when
\* it raises.  The tables afterwards.
SessionOutcome(raised, before, pending) ==
    IF raised THEN before ELSE pending

\* What is recorded of a process_posts call: its inputs, the tables before
\* it, the rows pending in the session when it ended, and its counters.
DailyRecord(d, posts, r, rerun, fails) ==
    [kind |-> "call", date |-> d, posts |-> posts, blocked |-> blocked,
     rerun |-> rerun, store_fails |-> fails,
     before |-> DailyTables(terms, dailyStats, dailyMetrics),
     pending |-> DailyTables(r.terms, r.dailyStats, r.dailyMetrics),
     raised |-> r.raised, store_failed |-> r.store_failed,
     term_stats |-> r.term_stats, terms |-> r.terms,
     metrics |-> r.metrics]

\* "with get_db() as session: process_posts(...); session.commit()".
CallProcessPosts(d, posts, run_id, fails) ==
    \E r \in {ProcessPosts(posts, d, run_id, terms, blocked, dailyStats,
                           dailyMetrics, fails)} :
      \E after \in {SessionOutcome(
                        r.raised,
                        DailyTables(terms, dailyStats, dailyMetrics),
                        DailyTables(r.terms, r.dailyStats, r.dailyMetrics))} :
        /\ terms' = after.terms
        /\ dailyStats' = after.dailyStats
        /\ dailyMetrics' = after.dailyMetrics
        /\ lastDaily' = DailyRecord(d, posts, r, d \in DOMAIN dailyMetrics,
                                    fails)

DailyOnce ==
    /\ lastDaily.kind = "none"
    /\ \E d \in DailyDates, posts \in RichBatches :
          CallProcessPosts(d, posts, NoRunId, {})
    /\ UNCHANGED <<crawl, blocked, runs, weeklyTrends, regressions,
                   lastJob, lastWeekly, calls, probe>>

InitDaily ==
    /\ crawl = IdleCrawl
    /\ terms \in InitialTerms
    /\ blocked \in SUBSET (1..Len(terms))
    /\ dailyStats = <<>>
    /\ dailyMetrics = <<>>
    /\ runs = <<>>
    /\ weeklyTrends = <<>>
    /\ regressions = <<>>
    /\ NoInvocation

NextDaily == DailyOnce

SpecDaily == InitDaily /\ [][NextDaily]_vars


\* ---- calculate_week_range applied to an execution date ----
NoStoreActivity ==
    /\ crawl = IdleCrawl
    /\ EmptyStore
    /\ lastDaily = [kind |-> "none"]
    /\ lastJob = [kind |-> "none"]
    /\ lastWeekly = [kind |-> "none"]
    /\ calls = NoCalls

ApplyCalculateWeekRange ==
    /\ probe.kind = "argument"
    /\ probe' = [kind |-> "value", argument |-> probe.argument,
                 value |-> CalculateWeekRange(probe.argument)]
    /\ UNCHANGED <<crawl, storeVars, lastDaily, lastJob, lastWeekly, calls>>

InitWeekRange ==
    /\ NoStoreActivity
    /\ \E e \in ExecutionDays : probe = [kind |-> "argument", argument |-> e]

NextWeekRange == ApplyCalculateWeekRange

SpecWeekRange == InitWeekRange /\ [][NextWeekRange]_vars

\* ---- normalize_term applied to a string, and again to its value ----
ApplyNormalizeTerm ==
    /\ probe.kind = "argument"
    /\ probe' = [kind |-> "value", argument |-> probe.argument,
                 value |-> normalize_term(probe.argument)]
    /\ UNCHANGED <<crawl, storeVars, lastDaily, lastJob, lastWeekly, calls>>

ApplyNormalizeTermAgain ==
    /\ probe.kind = "value"
    /\ probe' = [kind |-> "again", argument |-> probe.value,
                 value |-> normalize_term(probe.value)]
    /\ UNCHANGED <<crawl, storeVars, lastDaily, lastJob, lastWeekly, calls>>

InitNormalize ==
    /\ NoStoreActivity
    /\ \E x \in TermStrings : probe = [kind |-> "argument", argument |-> x]

NextNormalize == ApplyNormalizeTerm \/ ApplyNormalizeTermAgain

SpecNormalize == InitNormalize /\ [][NextNormalize]_vars


\* ---- process_posts for a date by its job, then once more by hand ----
FirstRun ==
    /\ lastDaily.kind = "none"
    /\ \E d \in DOMAIN runs, posts \in RerunBatches :
          CallProcessPosts(d, posts, runs[d].run_id, {})
    /\ UNCHANGED <<crawl, blocked, runs, weeklyTrends, regressions,
                   lastJob, lastWeekly, calls, probe>>

SecondRun ==
    /\ lastDaily.kind = "call"
    /\ ~lastDaily.rerun
    /\ CallProcessPosts(lastDaily.date, lastDaily.posts, NoRunId, {})
    /\ UNCHANGED <<crawl, blocked, runs, weeklyTrends, regressions,
                   lastJob, lastWeekly, calls, probe>>

InitRerun ==
    /\ crawl = IdleCrawl
    /\ terms \in InitialTerms
    /\ blocked \in SUBSET (1..Len(terms))
    /\ dailyStats = <<>>
    /\ dailyMetrics = <<>>
    /\ \E d \in DailyDates : runs = CreateRun(<<>>, d, 1).runs
    /\ weeklyTrends = <<>>
    /\ regressions = <<>>
    /\ NoInvocation

NextRerun == FirstRun \/ SecondRun

SpecRerun == InitRerun /\ [][NextRerun]_vars


\* ---- one process_posts call on a store that raises on some calls ----
FaultyOnce ==
    /\ lastDaily.kind = "none"
    /\ \E d \in DailyDates, posts \in FaultBatches :
         \E fails \in SUBSET (1..StoreCallsOf(posts)) :
            CallProcessPosts(d, posts, NoRunId, fails)
    /\ UNCHANGED <<crawl, blocked, runs, weeklyTrends, regressions,
                   lastJob, lastWeekly, calls, probe>>

InitFaulty ==
    /\ crawl = IdleCrawl
    /\ terms \in {<<>>, <<normalize_term(SurfPy)>>}
    /\ blocked = {}
    /\ dailyStats = <<>>
    /\ dailyMetrics = <<>>
    /\ runs = <<>>
    /\ weeklyTrends = <<>>
    /\ regressions = <<>>
    /\ NoInvocation

NextFaulty == FaultyOnce

SpecFaulty == InitFaulty /\ [][NextFaulty]_vars


\* ---- run_daily_collection, step by step ----
\* lastJob.kind is the position of the invocation: "none" (not started),
\* "created" (run record committed, crawl under way), "aggregated"
\* (process_posts committed), "failing" (in the except clause), "done".

\* Lines 57-79 for target date d, with the board page and the thread pages
\* the site will serve: the run record is created with status partial and
\* committed.  create raises when the date already has a record: the
\* session is rolled back and the job enters the except clause
\* ("failing") with pipeline_run bound and no record of its own.
JobCreateRecordFor(d, b, served) ==
    /\ LET run_id == calls.jobs + 1
           before == GetRunByDateAndBoard(runs, d)
           created == CreateRun(runs, d, run_id)
           job == [kind |-> "created", target_date |-> d,
                   run_id |-> run_id, status_before |-> before.status,
                   record_created |-> TRUE, crawled |-> FALSE,
                   crawl_raised |-> FALSE, aggregated |-> FALSE,
                   success_update_raised |-> FALSE,
                   failed_update_raised |-> FALSE,
                   raised |-> FALSE]
       IN  IF created.raised
           THEN /\ runs' = runs
                /\ lastJob' = [job EXCEPT !.kind = "failing",
                                          !.record_created = FALSE]
                /\ UNCHANGED crawl
           ELSE /\ runs' = created.runs
                /\ lastJob' = job
                /\ crawl' = CrawlStart(d, b, served)
    /\ calls' = [calls EXCEPT !.jobs = @ + 1]
    /\ UNCHANGED probe
    /\ UNCHANGED <<terms, blocked, dailyStats, dailyMetrics, weeklyTrends,
                   regressions, lastDaily, lastWeekly>>

\* The one invocation of the job that is followed step by step.
JobCreateRecord ==
    /\ lastJob.kind = "none"
    /\ \E d \in StepJobDates, b \in {"ok", "fail"} :
         \E served \in StepJobListings(d) : JobCreateRecordFor(d, b, served)

\* Lines 96-104: process_posts on the collected posts in one session,
\* committed when it returns and rolled back when it raises.
JobAggregate ==
    /\ lastJob.kind = "created"
    /\ crawl.pc = "returned"
    /\ \E fails \in SessionFaults(StoreCallsOf(crawl.collected)) :
          CallProcessPosts(lastJob.target_date, crawl.collected,
                           lastJob.run_id, fails)
    /\ lastJob' = [lastJob EXCEPT
                      !.kind = IF lastDaily'.raised THEN "failing"
                               ELSE "aggregated",
                      !.crawled = TRUE,
                      !.aggregated = ~lastDaily'.raised]
    /\ UNCHANGED <<crawl, blocked, runs, weeklyTrends, regressions,
                   lastWeekly, calls, probe>>

\* A job that marks the run success as soon as the crawl returned, without
\* the aggregation.
JobMarkSuccessWithoutAggregation ==
    /\ lastJob.kind = "created"
    /\ crawl.pc = "returned"
    /\ runs' = UpdateStatus(runs, lastJob.run_id, "success")
    /\ lastJob' = [lastJob EXCEPT !.kind = "done", !.crawled = TRUE]
    /\ UNCHANGED <<crawl, terms, blocked, dailyStats, dailyMetrics,
                   weeklyTrends, regressions, lastDaily, lastWeekly, calls, probe>>

\* Lines 116-124: update_status(run_id, "success") in a session of its
\* own.  When the store answers, the update is committed.  When the store
\* raises in that session, nothing of it is committed and the job enters
\* the except clause, after the aggregation was committed.
JobMarkSuccess ==
    /\ lastJob.kind = "aggregated"
    /\ \E store_raises \in BOOLEAN :
          IF store_raises
          THEN /\ runs' = runs
               /\ lastJob' = [lastJob EXCEPT !.kind = "failing",
                                             !.success_update_raised = TRUE]
          ELSE /\ runs' = UpdateStatus(runs, lastJob.run_id, "success")
               /\ lastJob' = [lastJob EXCEPT !.kind = "done"]
    /\ UNCHANGED <<crawl, terms, blocked, dailyStats, dailyMetrics,
                   weeklyTrends, regressions, lastDaily, lastWeekly, calls, probe>>

\* Lines 126-143: the except clause after an exception of the creation,
\* of the crawl, of the aggregation or of the success update.
\* update_status(run_id, "failed") runs in a session of its own: when the
\* store answers, the record of this run_id is failed (after a failed
\* creation no row carries the run_id and none changes); when the store
\* raises there, that exception is logged and dropped and the record stays
\* as it was.  In both cases the first exception is raised again.
JobMarkFailed ==
    /\ \/ lastJob.kind = "created" /\ crawl.pc = "raised"
       \/ lastJob.kind = "failing"
    /\ \E store_raises \in BOOLEAN :
          /\ runs' = IF store_raises THEN runs
                     ELSE UpdateStatus(runs, lastJob.run_id, "failed")
          /\ lastJob' = [lastJob EXCEPT
                            !.kind = "done",
                            !.crawled = lastJob.record_created,
                            !.crawl_raised = (lastJob.kind = "created"),
                            !.failed_update_raised = store_raises,
                            !.raised = TRUE]
    /\ UNCHANGED <<crawl, terms, blocked, dailyStats, dailyMetrics,
                   weeklyTrends, regressions, lastDaily, lastWeekly, calls, probe>>

InitJob ==
    /\ crawl = IdleCrawl
    /\ terms \in {<<>>, <<normalize_term(SurfPy)>>}
    /\ blocked \in SUBSET (1..Len(terms))
    /\ dailyStats = <<>>
    /\ dailyMetrics = <<>>
    /\ \E d \in StepJobDates :
          runs \in {<<>>,
                    UpdateStatus(CreateRun(<<>>, d, MaxJobs + 1).runs,
                                 MaxJobs + 1, "failed")}
    /\ weeklyTrends = <<>>
    /\ regressions = <<>>
    /\ NoInvocation

NextJob ==
    \/ JobCreateRecord
    \/ CrawlFetchBoard
    \/ CrawlVisitThread
    \/ JobAggregate
    \/ JobMarkSuccess
    \/ JobMarkFailed

SpecJob == InitJob /\ [][NextJob]_vars


\* ---- the pipeline: daily jobs, direct process_posts calls, weekly jobs ----

\* An invocation of run_daily_collection begins (lines 57-79) once the one
\* before it has ended; its crawl, its aggregation and the update of its
\* run record are the steps of the job above, each in a session of its
\* own, and the other jobs run between them.
JobCreateRecordInPipeline ==
    /\ calls.jobs < MaxJobs
    /\ lastJob.kind \in {"none", "done"}
    /\ \E d \in JobDates : \E served \in JobListings(d) :
          JobCreateRecordFor(d, "ok", served)

\* process_posts called outside the job (no run_id), committed.
DirectProcessPosts ==
    /\ calls.daily < MaxDailyCalls
    /\ \E d \in DirectDates : \E posts \in DirectBatches(d) :
          CallProcessPosts(d, posts, NoRunId, {})
    /\ calls' = [calls EXCEPT !.daily = @ + 1]
    /\ UNCHANGED probe
    /\ UNCHANGED <<crawl, blocked, runs, weeklyTrends, regressions,
                   lastJob, lastWeekly>>

\* TermRepository.update_blocked on a session that is then committed:
\* is_blocked of the term set or cleared; no row changes for a term_id the
\* table does not hold.
UpdateBlocked ==
    /\ calls.ops < MaxOps
    /\ \E term_id \in 1..(Len(terms) + 1), is_blocked \in BOOLEAN :
          blocked' = IF term_id \notin 1..Len(terms) THEN blocked
                     ELSE IF is_blocked THEN blocked \cup {term_id}
                     ELSE blocked \ {term_id}
    /\ calls' = [calls EXCEPT !.ops = @ + 1]
    /\ UNCHANGED probe
    /\ UNCHANGED <<crawl, terms, dailyStats, dailyMetrics, runs,
                   weeklyTrends, regressions, lastDaily, lastJob,
                   lastWeekly>>

\* run_weekly_analysis: process_weekly_analysis on one session and the
\* commit.  An exception out of process_weekly_analysis, or a commit on a
\* session whose transaction a rejected flush rolled back, leaves the store
\* as it was and the job raises.
RunWeeklyAnalysis(e) ==
    /\ LET range == CalculateWeekRange(e)
             gate == ValidateDataCollection(runs, range.week_start,
                                            range.week_end)
             ids == DOMAIN GetWeeklyAggregation(dailyStats, range.week_start,
                                                range.week_end,
                                                gate.valid_dates)
             with_history ==
                 {id \in ids : \A k \in 1..7 :
                     <<range.week_start - 7 * k, id>> \in DOMAIN weeklyTrends}
         IN  \E order \in Orders(ids), exact_fit \in BOOLEAN,
                mean \in [with_history -> MeanRoundings] :
             \E rounding \in {[exact_fit |-> exact_fit, mean |-> mean]} :
             \E r \in {ProcessWeeklyAnalysis(e, order, rounding, runs,
                                             dailyStats, dailyMetrics,
                                             weeklyTrends, regressions)} :
               LET committed == ~r.raised /\ ~r.session.deactive
               IN  /\ weeklyTrends' = IF committed THEN r.session.weeklyTrends
                                      ELSE weeklyTrends
                   /\ regressions' = IF committed THEN r.session.regressions
                                     ELSE regressions
                   /\ lastWeekly' =
                        [kind |-> "call",
                         week_start |-> r.week_start,
                         runs |-> runs,
                         returned |-> ~r.raised,
                         job_raised |-> ~committed,
                         valid_dates |-> r.valid_dates,
                         invalid_dates |-> r.invalid_dates,
                         aggregation |-> r.aggregation,
                         total_posts |-> r.total_posts,
                         processed_terms |-> r.session.processed_terms,
                         error_terms |-> r.session.error_terms,
                         wrote |-> committed /\
                                   (\/ r.session.weeklyTrends # weeklyTrends
                                    \/ r.session.regressions # regressions
                                    \/ r.session.processed_terms > 0)]
    /\ calls' = [calls EXCEPT !.weekly = @ + 1]
    /\ UNCHANGED probe
    /\ UNCHANGED <<crawl, terms, blocked, dailyStats, dailyMetrics, runs,
                   lastDaily, lastJob>>

RunWeekly ==
    /\ calls.weekly < MaxWeeklyCalls
    /\ \E e \in ExecDates : RunWeeklyAnalysis(e)

\* ---- the daily job step by step, and a weekly run at any point of it ----
NextJobWeek == NextJob \/ RunWeekly

SpecJobWeek == InitJob /\ [][NextJobWeek]_vars

\* ---- one weekly run on a store with weekly history ----
InitWeekly ==
    /\ crawl = IdleCrawl
    /\ blocked = {}
    /\ \E batch \in WeeklyDayBatches, again \in {<<>>, <<<<>>>>} :
         LET first == ProcessPosts(batch, CurrentWeek, 1,
                                   <<normalize_term(SurfPy)>>, {}, <<>>, <<>>,
                                   {})
             r == IF again = <<>> THEN first
                  ELSE ProcessPosts(again[1], CurrentWeek, NoRunId,
                                    first.terms, {}, first.dailyStats,
                                    first.dailyMetrics, {})
         IN  /\ terms = r.terms
             /\ dailyStats = r.dailyStats
             /\ dailyMetrics = r.dailyMetrics
    /\ runs = UpdateStatus(CreateRun(<<>>, CurrentWeek, 1).runs, 1, "success")
    /\ \E present \in SUBSET (0..MaxHistoryWeeks), profile \in RateProfiles :
         weeklyTrends = HistoryRows(present, profile)
    /\ regressions \in {<<>>, [id \in {1} |-> OldRegression]}
    /\ NoInvocation

WeeklyOnce ==
    /\ lastWeekly.kind = "none"
    /\ RunWeeklyAnalysis(CurrentWeek + 7)

NextWeekly == WeeklyOnce

SpecWeekly == InitWeekly /\ [][NextWeekly]_vars

Init ==
    /\ crawl = IdleCrawl
    /\ EmptyStore
    /\ NoInvocation

Next ==
    \/ JobCreateRecordInPipeline
    \/ CrawlFetchBoard
    \/ CrawlVisitThread
    \/ JobAggregate
    \/ JobMarkSuccess
    \/ JobMarkFailed
    \/ DirectProcessPosts
    \/ UpdateBlocked
    \/ RunWeekly

Spec == Init /\ [][Next]_vars


-----------------------------------------------------------------------------
(* Properties of the bounded crawl (SpecCrawl).                            *)

\* A post of the page dated on the given day: a div with that date and a
\* text.
PageHasPostOn(page, day) ==
    \E i \in DOMAIN page.divs :
        page.divs[i].date = day /\ ~page.divs[i].content.empty

\* Thread j of the listing was served and has neither a target-date post
\* nor a post of the following day.
InactiveAt(c, j) ==
    /\ c.listing[j].fetch = "ok"
    /\ ~PageHasPostOn(c.listing[j], c.target)
    /\ ~PageHasPostOn(c.listing[j], c.target + 1)

TargetPostsBefore(c, j) ==
    {<<k, i>> \in (1..(j - 1)) \X (1..MaxThreadPosts) :
        /\ i \in DOMAIN c.listing[k].divs
        /\ c.listing[k].divs[i].date = c.target
        /\ ~c.listing[k].divs[i].content.empty}

\* C1: threads are visited in listing order and the crawl stops at the first
\* successfully fetched thread with no target-date and no next-day post: no
\* later thread is fetched, the batch holds no post of a later thread, and
\* what is returned is the target-date posts of the threads before it.
C1_StopsAtFirstInactiveThread ==
    /\ \E n \in 0..Len(crawl.listing) : crawl.fetched = 1..n
    /\ \A i, k \in DOMAIN crawl.collected :
          i < k => crawl.collected[i].thread_path <= crawl.collected[k].thread_path
    /\ \A j \in crawl.fetched :
          InactiveAt(crawl, j) =>
            /\ \A k \in crawl.fetched : k <= j
            /\ \A i \in DOMAIN crawl.collected :
                  crawl.collected[i].thread_path < j
            /\ crawl.pc = "returned"
            /\ Len(crawl.collected) = Cardinality(TargetPostsBefore(crawl, j))

\* T1 with target-date posts, T2 with neither, T3 with target-date posts:
\* the crawl has returned after fetching T1 and T2 only.
C1_Witness ==
    /\ crawl.pc = "returned"
    /\ Len(crawl.listing) = 3
    /\ PageHasPostOn(crawl.listing[1], crawl.target)
    /\ InactiveAt(crawl, 2)
    /\ PageHasPostOn(crawl.listing[3], crawl.target)
    /\ crawl.fetched = {1, 2}
    /\ crawl.collected # <<>>
    /\ \A i \in DOMAIN crawl.collected : crawl.collected[i].thread_path = 1

\* C2: a thread page whose fetch fails is skipped: the crawl is not aborted,
\* it goes on with the next thread, and the target-date posts of the threads
\* served before and after the failure are returned.
C2_FetchFailureSkipsThread ==
    (crawl.board = "ok" /\ CrawlDone(crawl)) =>
        /\ crawl.pc = "returned"
        /\ \A k \in DOMAIN crawl.listing :
              (/\ \A j \in 1..k : ~InactiveAt(crawl, j)
               /\ PageHasPostOn(crawl.listing[k], crawl.target))
              => \E i \in DOMAIN crawl.collected :
                    crawl.collected[i].thread_path = k

-----------------------------------------------------------------------------
(* Properties of one process_posts call on an empty statistics table       *)
(* (SpecDaily).                                                            *)

\* The post has a token that normalizes to the term with this id.
PostContains(post, id) ==
    /\ ~post.content.empty
    /\ \E k \in DOMAIN post.content.nouns :
          normalize_term(post.content.nouns[k]) = terms[id]

PostsContaining(posts, id) ==
    {i \in DOMAIN posts : PostContains(posts[i], id)}

ThreadsContaining(posts, id) ==
    {posts[i].thread_path : i \in PostsContaining(posts, id)}

\* C3: the post_hits persisted for a term is the number of distinct posts of
\* the batch with a token normalizing to the term; blocked terms and terms
\* in no post have no row.
C3_PostHitsCountDistinctPosts ==
    lastDaily.kind = "call" =>
      \A id \in 1..Len(terms) :
        LET n == Cardinality(PostsContaining(lastDaily.posts, id))
            key == <<lastDaily.date, id>>
        IN  IF n > 0 /\ id \notin lastDaily.blocked
            THEN key \in DOMAIN dailyStats /\ dailyStats[key].post_hits = n
            ELSE key \notin DOMAIN dailyStats

\* Two posts, one of them with the same term twice: post_hits is 2.
C3_Witness ==
    /\ lastDaily.kind = "call"
    /\ Len(lastDaily.posts) = 2
    /\ \E id \in 1..Len(terms) :
          /\ id \notin lastDaily.blocked
          /\ \A i \in 1..2 : PostContains(lastDaily.posts[i], id)
          /\ \E i \in 1..2 :
                LET nouns == lastDaily.posts[i].content.nouns
                IN  Len(nouns) = 2 /\ \A k \in 1..2 :
                        normalize_term(nouns[k]) = terms[id]
          /\ <<lastDaily.date, id>> \in DOMAIN dailyStats
          /\ dailyStats[<<lastDaily.date, id>>].post_hits = 2

\* C4: the thread_hits persisted for a term is the number of distinct thread
\* paths of the batch with a post containing the term, in whatever order the
\* posts of the threads come.
C4_ThreadHitsCountDistinctThreads ==
    lastDaily.kind = "call" =>
      \A id \in 1..Len(terms) :
        LET n == Cardinality(ThreadsContaining(lastDaily.posts, id))
            key == <<lastDaily.date, id>>
        IN  (n > 0 /\ id \notin lastDaily.blocked) =>
              key \in DOMAIN dailyStats /\ dailyStats[key].thread_hits = n

\* Posts of thread 1, thread 2, thread 1 again, all with the term:
\* thread_hits is 2 and post_hits is 3.
C4_Witness ==
    /\ lastDaily.kind = "call"
    /\ Len(lastDaily.posts) = 3
    /\ lastDaily.posts[1].thread_path = 1
    /\ lastDaily.posts[2].thread_path = 2
    /\ lastDaily.posts[3].thread_path = 1
    /\ \E id \in 1..Len(terms) :
          /\ id \notin lastDaily.blocked
          /\ \A i \in 1..3 : PostContains(lastDaily.posts[i], id)
          /\ <<lastDaily.date, id>> \in DOMAIN dailyStats
          /\ dailyStats[<<lastDaily.date, id>>].thread_hits = 2
          /\ dailyStats[<<lastDaily.date, id>>].post_hits = 3


-----------------------------------------------------------------------------
(* Properties of the pipeline (Spec).                                      *)

\* C5: after process_posts ran again for a date, the rows stored for the
\* date are exactly the rows of the latest run: the same terms, with the
\* counts of the latest batch.
C5_RerunLeavesOnlyLatestRows ==
    (lastDaily.kind = "call" /\ lastDaily.rerun) =>
      \A id \in 1..Len(terms) :
        LET key == <<lastDaily.date, id>>
        IN  IF id \in DOMAIN lastDaily.term_stats
            THEN key \in DOMAIN dailyStats
                 /\ dailyStats[key] = lastDaily.term_stats[id]
            ELSE key \notin DOMAIN dailyStats

\* C6: a retry of the daily job for a date whose run failed executes the
\* crawl and the aggregation again and, when the crawl succeeds, leaves the
\* run record of the date with status success.
C6_RetryOfFailedDateSucceeds ==
    (lastJob.kind = "done" /\ lastJob.status_before = "failed") =>
      /\ lastJob.crawled
      /\ ~lastJob.crawl_raised =>
            /\ lastJob.aggregated
            /\ runs[lastJob.target_date].status = "success"

\* C7: every persisted weekly trend row has an appearance rate in [0, 1],
\* that is, post_hits does not exceed total_posts.
C7_WeeklyPostHitsWithinTotal ==
    \A k \in DOMAIN weeklyTrends :
        /\ weeklyTrends[k].appearance_rate.num >= 0
        /\ weeklyTrends[k].appearance_rate.num <= weeklyTrends[k].appearance_rate.den
        /\ weeklyTrends[k].post_hits <= weeklyTrends[k].total_posts

\* A date is valid: a run record exists with status success or with the
\* recovered flag set.
DateIsValid(rr, d) ==
    d \in DOMAIN rr /\ (rr[d].status = "success" \/ rr[d].is_recovered)

ValidDatesOfWeek(rr, week_start) ==
    {d \in Week(week_start) : DateIsValid(rr, d)}

\* C8: the gate returns exactly the valid dates of the window, and the
\* invalid_dates of the weekly run is the complement within the week.
C8_GateReturnsExactlyValidDates ==
    lastWeekly.kind = "call" =>
      /\ lastWeekly.returned
      /\ lastWeekly.valid_dates =
            ValidDatesOfWeek(lastWeekly.runs, lastWeekly.week_start)
      /\ lastWeekly.invalid_dates =
            Week(lastWeekly.week_start) \ lastWeekly.valid_dates

\* C9: with no valid date in the week the weekly run returns without
\* raising, with zero processed and error terms, the 7 dates of the week as
\* invalid_dates, and nothing written.
C9_NoValidDateShortCircuits ==
    (/\ lastWeekly.kind = "call"
     /\ ValidDatesOfWeek(lastWeekly.runs, lastWeekly.week_start) = {}) =>
      /\ lastWeekly.returned
      /\ ~lastWeekly.job_raised
      /\ lastWeekly.processed_terms = 0
      /\ lastWeekly.error_terms = 0
      /\ lastWeekly.invalid_dates = Week(lastWeekly.week_start)
      /\ ~lastWeekly.wrote

\* The rows of a term on the valid dates of the week.
ValidRowsOf(ds, id, week_start, valid_dates) ==
    {k \in DOMAIN ds : k[2] = id /\ k[1] \in Week(week_start) \cap valid_dates}

WeeklyTotalsMatch(w, ds, dm) ==
    /\ \A id \in 1..Len(terms) :
         LET rows == ValidRowsOf(ds, id, w.week_start, w.valid_dates)
         IN  IF rows = {} THEN id \notin DOMAIN w.aggregation
             ELSE /\ id \in DOMAIN w.aggregation
                  /\ w.aggregation[id].post_hits =
                        SumOver(rows, [k \in rows |-> ds[k].post_hits])
                  /\ w.aggregation[id].thread_hits =
                        SumOver(rows, [k \in rows |-> ds[k].thread_hits])
    /\ LET days == {d \in Week(w.week_start) \cap w.valid_dates :
                        d \in DOMAIN dm}
       IN  w.total_posts = SumOver(days, [d \in days |-> dm[d].fetched_posts])

-----------------------------------------------------------------------------
(* Properties of a weekly run over a history of weekly rows (SpecWeekly).  *)

\* The weeks among the current one and the 7 before it that hold a row of
\* the term.
WindowWeeks(wt, id, week_start) ==
    {k \in 0..7 : <<week_start - 7 * k, id>> \in DOMAIN wt}

\* The weeks among the n before the current one that hold a row of the term.
PriorWeeks(wt, id, week_start, n) ==
    {k \in 1..n : <<week_start - 7 * k, id>> \in DOMAIN wt}

\* C11: a weekly run leaves the regression result of every term with fewer
\* than 8 weekly rows in its window exactly as it was: not created, not
\* overwritten, not deleted.
C11_RegressionUntouchedBelowEightRows ==
    [][calls'.weekly # calls.weekly =>
        \A id \in 1..Len(terms) :
          Cardinality(WindowWeeks(weeklyTrends', id, lastWeekly'.week_start)) < 8
          => /\ (id \in DOMAIN regressions') = (id \in DOMAIN regressions)
             /\ id \in DOMAIN regressions => regressions'[id] = regressions[id]
      ]_vars

\* A committed weekly run that processed term 1 with fewer than 8 rows in
\* its window while an older regression result of the term is stored.
C11_Witness ==
    /\ lastWeekly.kind = "call"
    /\ ~lastWeekly.job_raised
    /\ 1 \in DOMAIN lastWeekly.aggregation
    /\ <<lastWeekly.week_start, 1>> \in DOMAIN weeklyTrends
    /\ Cardinality(WindowWeeks(weeklyTrends, 1, lastWeekly.week_start)) \in 2..7
    /\ 1 \in DOMAIN regressions
    /\ regressions[1] = OldRegression

\* C12 as stated: the z-score of the current week is non-null whenever at
\* least 7 of the 8 preceding weeks hold a row of the term, and null when
\* fewer than 7 prior rows exist.
C12_ZscoreFromSevenOfEightPriorWeeks ==
    (lastWeekly.kind = "call" /\ ~lastWeekly.job_raised) =>
      \A id \in DOMAIN lastWeekly.aggregation :
        LET ws == lastWeekly.week_start
            z == weeklyTrends[<<ws, id>>].zscore
        IN  /\ Cardinality(PriorWeeks(weeklyTrends, id, ws, 8)) >= 7
                => z # "null"
            /\ Cardinality(PriorWeeks(weeklyTrends, id, ws, 8)) < 7
                => z = "null"

\* C12 (amended): the z-score of the current week is non-null exactly when
\* each of the 7 weeks preceding the current week holds a row of the term;
\* a row of the current week itself, or of the 8th week back, never counts.
C12_ZscoreNeedsAllSevenPriorWeeks ==
    (lastWeekly.kind = "call" /\ ~lastWeekly.job_raised) =>
      \A id \in DOMAIN lastWeekly.aggregation :
        LET ws == lastWeekly.week_start
        IN  (weeklyTrends[<<ws, id>>].zscore # "null")
            <=> (PriorWeeks(weeklyTrends, id, ws, 7) = 1..7)

\* A committed run whose term has rows in all 7 preceding weeks and a
\* z-score, and a term of the same run without history and without z-score.
C12_Witness ==
    /\ lastWeekly.kind = "call"
    /\ ~lastWeekly.job_raised
    /\ DOMAIN lastWeekly.aggregation = {1, 2}
    /\ PriorWeeks(weeklyTrends, 1, lastWeekly.week_start, 7) = 1..7
    /\ weeklyTrends[<<lastWeekly.week_start, 1>>].zscore \in {"pos", "neg"}
    /\ weeklyTrends[<<lastWeekly.week_start, 2>>].zscore = "null"



-----------------------------------------------------------------------------
(* Properties of the weekly term loop under a failing term (Spec).         *)

\* The terms of an aggregation whose own row the store rejects: more
\* post_hits than the week's total_posts.
TermsRaising(agg, total_posts) ==
    {id \in DOMAIN agg : total_posts > 0 /\ agg[id].post_hits > total_posts}

\* C13: an exception raised while one term is processed increments
\* error_terms and does not count that term as processed, and every other
\* term of the aggregation is still processed and its row for the week is
\* persisted.
C13_TermErrorSparesOtherTerms ==
    (lastWeekly.kind = "call" /\ lastWeekly.returned) =>
        LET agg == lastWeekly.aggregation
            failing == TermsRaising(agg, lastWeekly.total_posts)
        IN  /\ lastWeekly.error_terms = Cardinality(failing)
            /\ lastWeekly.processed_terms = Cardinality(DOMAIN agg \ failing)
            /\ \A id \in DOMAIN agg \ failing :
                 /\ <<lastWeekly.week_start, id>> \in DOMAIN weeklyTrends
                 /\ weeklyTrends[<<lastWeekly.week_start, id>>].post_hits =
                        agg[id].post_hits


-----------------------------------------------------------------------------
(* Properties of the daily job taken step by step (SpecJob).               *)

\* The status of the run record this invocation created.
JobRunStatus == runs[lastJob.target_date].status

\* The aggregation of this invocation returned and its rows are the
\* committed ones.
JobAggregationCommitted ==
    /\ lastDaily.kind = "call"
    /\ ~lastDaily.raised
    /\ DailyTables(terms, dailyStats, dailyMetrics) = lastDaily.pending

\* C14: run_daily_collection creates the run record with status partial;
\* the record becomes success only after the crawl returned and the
\* aggregation was committed; when any step raises after the record was
\* created (the crawl, the aggregation or the success update) the record
\* becomes failed and the job raises; a run that completes, with a failure
\* of the tagger on a post and filtered tokens included, ends with success.
C14_RunStatusFollowsTheJob ==
    (lastJob.kind # "none" /\ lastJob.record_created) =>
        /\ runs[lastJob.target_date].run_id = lastJob.run_id
        /\ lastJob.kind \in {"created", "aggregated", "failing"} =>
               JobRunStatus = "partial"
        /\ JobRunStatus = "success" =>
               /\ lastJob.kind = "done"
               /\ crawl.pc = "returned"
               /\ JobAggregationCommitted
        /\ lastJob.kind = "done" =>
               /\ lastJob.raised <=>
                     (\/ crawl.pc = "raised"
                      \/ lastDaily.kind = "call" /\ lastDaily.raised
                      \/ lastJob.success_update_raised)
               /\ JobRunStatus = IF lastJob.raised THEN "failed" ELSE "success"


-----------------------------------------------------------------------------
(* Properties of the counters of one process_posts call (SpecDaily).       *)

\* The token occurrences of a batch: the nouns the tagger yields for each
\* post.
RECURSIVE AllTokens(_)
AllTokens(posts) ==
    IF posts = <<>> THEN <<>>
    ELSE LET c == Head(posts).content
         IN  (IF c.empty THEN <<>> ELSE c.nouns)
             \o AllTokens(Tail(posts))

\* How many of them satisfy Keep.
TokenCount(posts, Keep(_)) == Len(SelectSeq(AllTokens(posts), Keep))

\* The token is an occurrence of a blocked term of the call.
TokenOfBlockedTerm(noun) ==
    /\ normalize_term(noun) # <<>>
    /\ GetByNormalized(lastDaily.terms, normalize_term(noun))
           \in lastDaily.blocked

\* C15: a term that is blocked when the batch is processed gets no
\* DailyTermStats row from the run, and each of its token occurrences is
\* counted in total_tokens and in filtered_tokens (filtered_tokens counts
\* these occurrences and the tokens the normalizer rejects, nothing else).
C15_BlockedTermsOnlyCountAsFiltered ==
    lastDaily.kind = "call" =>
        /\ \A b \in lastDaily.blocked :
              /\ b \notin DOMAIN lastDaily.term_stats
              /\ <<lastDaily.date, b>> \notin DOMAIN dailyStats
        /\ lastDaily.metrics.total_tokens =
              TokenCount(lastDaily.posts, LAMBDA n : TRUE)
        /\ lastDaily.metrics.filtered_tokens =
              TokenCount(lastDaily.posts, LAMBDA n : TokenOfBlockedTerm(n))
              + TokenCount(lastDaily.posts,
                           LAMBDA n : normalize_term(n) = <<>>)

\* A batch in which a blocked term occurs twice next to a term that is
\* counted.
C15_Witness ==
    /\ lastDaily.kind = "call"
    /\ TokenCount(lastDaily.posts, LAMBDA n : TokenOfBlockedTerm(n)) >= 2
    /\ lastDaily.metrics.filtered_tokens >= 2
    /\ DOMAIN lastDaily.term_stats # {}


\* The posts of a batch on which the tokenizer raises.
RaisingPosts(posts) == {i \in DOMAIN posts : posts[i].content.raises}

\* C16: when the tokenizer raises for a post, tokenize_fail_posts grows by
\* one for that post, the post adds no token to total_tokens and no hit to
\* any term, and the other posts are processed and the batch is persisted.
C16_TokenizerFailureIsCountedAndSkipped ==
    lastDaily.kind = "call" =>
        LET posts == lastDaily.posts
            m == lastDaily.metrics
            good == SelectSeq(posts, LAMBDA p : ~p.content.raises)
        IN  /\ m.tokenize_fail_posts = Cardinality(RaisingPosts(posts))
            /\ m.parsed_posts = Len(posts)
            /\ m.total_tokens = Len(AllTokens(good))
            /\ \A id \in DOMAIN lastDaily.term_stats :
                  /\ lastDaily.term_stats[id].post_hits =
                        Cardinality(PostsContaining(good, id))
                  /\ lastDaily.term_stats[id].thread_hits =
                        Cardinality(ThreadsContaining(good, id))
            /\ ~lastDaily.raised
            /\ lastDaily.date \in DOMAIN dailyMetrics
            /\ dailyMetrics[lastDaily.date] = m
            /\ \A id \in 1..Len(terms) :
                  (PostsContaining(good, id) # {} /\ id \notin lastDaily.blocked)
                      => <<lastDaily.date, id>> \in DOMAIN dailyStats


-----------------------------------------------------------------------------
(* Properties of process_posts on a store that raises (SpecFaulty, SpecJob) *)

\* C17: a persistence error raised by the store during process_posts, in
\* get_or_create or in an upsert, propagates to the caller and is not
\* counted as a tokenizer failure.
C17_StoreErrorPropagates ==
    (lastDaily.kind = "call" /\ lastDaily.store_failed) =>
        /\ lastDaily.raised
        /\ lastDaily.metrics.tokenize_fail_posts = 0


-----------------------------------------------------------------------------
(* Properties of the crawl on pages that do not parse (SpecCrawl).         *)

\* The page of thread j was fetched and parse_thread_page finds no post in
\* it.
UnparseableAt(c, j) ==
    /\ j \in c.fetched
    /\ c.listing[j].fetch = "ok"
    /\ ParseThreadPage(c.listing[j].divs) = <<>>

\* C18: a thread whose page cannot be parsed is skipped: the crawl goes on
\* with the next thread of the listing and the thread does not trigger the
\* termination rule.
C18_UnparseableThreadIsSkipped ==
    CrawlDone(crawl) =>
        \A j \in 1..(Len(crawl.listing) - 1) :
            UnparseableAt(crawl, j) => (j + 1) \in crawl.fetched


\* C19: the aggregation of a daily job is atomic in the store: when
\* process_posts returns, every DailyTermStats upsert of the batch, the
\* DailyMetrics upsert and the Terms it created are committed together;
\* when an error leaves process_posts, none of them is visible.
C19_AggregationCommitsAllOrNothing ==
    (lastJob.kind \in {"aggregated", "failing", "done"}
     /\ lastDaily.kind = "call") =>
        LET now == DailyTables(terms, dailyStats, dailyMetrics)
        IN  IF lastDaily.raised
            THEN now = lastDaily.before
            ELSE /\ now = lastDaily.pending
                 /\ terms = lastDaily.terms
                 /\ \A id \in DOMAIN lastDaily.term_stats :
                       /\ <<lastDaily.date, id>> \in DOMAIN dailyStats
                       /\ dailyStats[<<lastDaily.date, id>>] =
                              lastDaily.term_stats[id]
                 /\ lastDaily.date \in DOMAIN dailyMetrics
                 /\ dailyMetrics[lastDaily.date] = lastDaily.metrics

\* The store failed after a Term was created and a DailyTermStats row was
\* upserted in the session; neither is in the store after the job.
C19_Witness ==
    /\ lastJob.kind = "done"
    /\ lastDaily.kind = "call"
    /\ lastDaily.raised
    /\ Len(lastDaily.pending.terms) > Len(lastDaily.before.terms)
    /\ DOMAIN lastDaily.pending.dailyStats # {}
    /\ Len(terms) = Len(lastDaily.before.terms)
    /\ dailyStats = <<>>
    /\ dailyMetrics = <<>>


-----------------------------------------------------------------------------
(* Properties of a second process_posts call on the same batch (SpecRerun) *)

\* C20: process_posts run again with the same batch for the same date
\* leaves the DailyTermStats rows and the terms as the first run left them,
\* and the date keeps exactly one DailyMetrics record, which holds the
\* counters of the latest run (equal to the first run's, under the latest
\* run_id).
C20_SecondRunOfSameBatchChangesNothing ==
    [][(/\ lastDaily.kind = "call"
        /\ lastDaily'.kind = "call"
        /\ lastDaily'.rerun
        /\ lastDaily'.date = lastDaily.date
        /\ lastDaily'.posts = lastDaily.posts)
       => /\ dailyStats' = dailyStats
          /\ terms' = terms
          /\ DOMAIN dailyMetrics' = {lastDaily.date}
          /\ dailyMetrics'[lastDaily.date] = lastDaily'.metrics
          /\ lastDaily'.metrics =
                [dailyMetrics[lastDaily.date] EXCEPT
                    !.run_id = lastDaily'.metrics.run_id]]_vars

\* After the second run of a batch that left rows, filtered a token and
\* held a post on which the tagger fails; the metrics record carries the
\* second run_id.
C20_Witness ==
    /\ lastDaily.kind = "call"
    /\ lastDaily.rerun
    /\ DOMAIN dailyStats # {}
    /\ lastDaily.metrics.filtered_tokens > 0
    /\ \E i \in DOMAIN lastDaily.posts : lastDaily.posts[i].content.raises
    /\ lastDaily.before.dailyMetrics[lastDaily.date].run_id # NoRunId
    /\ dailyMetrics[lastDaily.date].run_id = NoRunId


-----------------------------------------------------------------------------
(* Properties of calculate_week_range (SpecWeekRange).                     *)

\* C21: calculate_week_range(execution_date) returns week_start =
\* execution_date - (weekday + 7) days and week_end = week_start + 6 days;
\* week_start is a Monday, week_end the following Sunday, and the range is
\* the whole calendar week just before the week that holds execution_date.
C21_RangeIsThePreviousCalendarWeek ==
    probe.kind = "value" =>
        LET e == probe.argument
            r == probe.value
            monday_of_e == CHOOSE m \in (e - 6)..e : m % 7 = 0
        IN  /\ r.week_start = e - ((e % 7) + 7)
            /\ r.week_end = r.week_start + 6
            /\ r.week_start % 7 = 0
            /\ r.week_end % 7 = 6
            /\ r.week_end = monday_of_e - 1

\* An execution on a Sunday: the range ends 7 days before it.
C21_Witness ==
    /\ probe.kind = "value"
    /\ probe.argument % 7 = 6
    /\ probe.value.week_end = probe.argument - 7
    /\ probe.value.week_start = probe.argument - 13


-----------------------------------------------------------------------------
(* Properties of normalize_term (SpecNormalize).                           *)

\* C22: normalize_term is idempotent: applying it to its own result gives
\* that result again, for every input string.
C22_NormalizeIsIdempotent ==
    probe.kind = "again" => probe.value = probe.argument

\* The characters of the normalised, lower-cased term that none of the
\* removal steps and no whitespace handling takes away.
KeptChars(term) ==
    LET n1 == NFKC(term)
        n2 == [i \in DOMAIN n1 |-> LowerChar(n1[i])]
    IN  RemoveChars(n2, PunctChars \cup LongVowelChars \cup SpaceChars)

\* C23: the result of normalize_term is the empty string or has at least 2
\* characters, none of them a stripped symbol or a long-vowel / wave-dash
\* mark, no whitespace at either end and no two whitespace characters in a
\* row; an input that reduces to whitespace, stripped symbols or a single
\* character gives the empty string.
C23_ResultIsEmptyOrClean ==
    probe.kind = "value" =>
        LET v == probe.value
        IN  /\ \/ v = <<>>
               \/ /\ Len(v) >= 2
                  /\ \A i \in DOMAIN v : v[i] \notin PunctChars \cup LongVowelChars
                  /\ v[1] \notin SpaceChars
                  /\ v[Len(v)] \notin SpaceChars
                  /\ \A i \in 1..(Len(v) - 1) :
                        ~(v[i] \in SpaceChars /\ v[i + 1] \in SpaceChars)
            /\ Len(KeptChars(probe.argument)) <= 1 => v = <<>>

\* A term with symbols and whitespace inside and around it, of which two
\* letters and one inner space are left.
C23_Witness ==
    /\ probe.kind = "value"
    /\ probe.argument = <<" ", "y", "-", "y">> \/ probe.argument = <<"y", "-", " ", "y">>
    /\ probe.value \in {<<"y", "y">>, <<"y", " ", "y">>}


-----------------------------------------------------------------------------
(* The filtered rate of process_posts (SpecDaily).                         *)

\* C24: after a process_posts run filtered_rate is filtered_tokens /
\* total_tokens, it is 0 when total_tokens is 0, and it lies in [0, 1]:
\* filtered_tokens never exceeds total_tokens.  The record upserted for the
\* date carries the same rate.
C24_FilteredRateIsTheFilteredShare ==
    lastDaily.kind = "call" =>
        LET m    == lastDaily.metrics
            rate == m.filtered_rate
        IN  /\ 0 <= m.filtered_tokens
            /\ m.filtered_tokens <= m.total_tokens
            /\ rate.den > 0
            /\ m.total_tokens = 0 => rate.num = 0
            /\ m.total_tokens > 0 =>
                  rate.num * m.total_tokens = m.filtered_tokens * rate.den
            /\ 0 <= rate.num
            /\ rate.num <= rate.den
            /\ ~lastDaily.raised =>
                  dailyMetrics[lastDaily.date].filtered_rate = rate

\* A batch of which some tokens were filtered and some were counted.
C24_Witness ==
    /\ lastDaily.kind = "call"
    /\ lastDaily.metrics.filtered_tokens >= 1
    /\ lastDaily.metrics.filtered_tokens < lastDaily.metrics.total_tokens
    /\ lastDaily.metrics.filtered_rate.num = lastDaily.metrics.filtered_tokens
    /\ lastDaily.metrics.filtered_rate.den = lastDaily.metrics.total_tokens


-----------------------------------------------------------------------------
(* The regression window of a weekly run (SpecWeekly).                     *)

\* The rates of the 8 weeks ending with week_start, oldest week first: the
\* current week is the 8th entry (index 7 of the fit).
\* The rates of the 7 weeks before week_start as stored, oldest first, and
\* the rate of week_start as the run computes it.
EightWeekRates(wt, id, week_start, current_rate) ==
    [i \in 1..8 |-> IF i = 8 THEN current_rate
                    ELSE wt[<<week_start - 7 * (8 - i), id>>].appearance_rate]

\* C25: a weekly run overwrites the regression result of a term if and
\* only if the term has a weekly row for each of the 8 consecutive weeks
\* ending with the current week, the current week's row being the one this
\* run upserts for an aggregated term; the result is fitted on the 8 rates
\* in ascending week order and its window is [week_start - 49,
\* week_start + 6].  In every other case the stored result of the term
\* stays as it was.  Runs in which some term has 8 equal rates other than
\* 0, where the p-value depends on floating-point rounding, are left out.
C25_RegressionOverwrittenIffEightWeeks ==
    [][calls'.weekly # calls.weekly /\ lastWeekly'.valid_dates # {} =>
        LET ws  == lastWeekly'.week_start
            agg == lastWeekly'.aggregation
            Full(id) == /\ id \in DOMAIN agg
                        /\ PriorWeeks(weeklyTrends, id, ws, 7) = 1..7
            Rates(id) == EightWeekRates(weeklyTrends, id, ws,
                             AppearanceRate(agg[id].post_hits,
                                            lastWeekly'.total_posts))
            FlatNotZero(id) == /\ Rates(id)[1].num # 0
                               /\ \A i \in 1..8 : FracEq(Rates(id)[i], Rates(id)[1])
        IN  (\A id \in 1..Len(terms) : Full(id) => ~FlatNotZero(id)) =>
            \A id \in 1..Len(terms) :
                  /\ Full(id) =>
                        /\ id \in DOMAIN regressions'
                        /\ regressions'[id] =
                             [slope |-> RegressionSlopeSign([i \in 1..8 |-> i - 1],
                                                            Rates(id)),
                              analysis_start_date |-> ws - 49,
                              analysis_end_date |-> ws + 6]
                  /\ ~Full(id) =>
                        /\ (id \in DOMAIN regressions') = (id \in DOMAIN regressions)
                        /\ id \in DOMAIN regressions =>
                              regressions'[id] = regressions[id]
      ]_vars


-----------------------------------------------------------------------------
(* The contents of the collected batch (SpecCrawl).                        *)

\* Thread j of the listing was served with a post of the following day and
\* without any target-date post.
NextDayOnlyAt(c, j) ==
    /\ c.listing[j].fetch = "ok"
    /\ ~PageHasPostOn(c.listing[j], c.target)
    /\ PageHasPostOn(c.listing[j], c.target + 1)

\* C26: every post of the batch is a target-date post (its date string
\* starts with the prefix of the target date) of a thread that was visited,
\* with the date string and the content the thread page holds; a visited
\* thread with next-day posts and no target-date post adds nothing to the
\* batch, and the crawl goes on to the thread after it.
C26_BatchHoldsTargetPostsOfVisitedThreads ==
    /\ \A i \in DOMAIN crawl.collected :
          LET p == crawl.collected[i]
          IN  /\ p.thread_path \in crawl.fetched
              /\ StartsWith(p.date, BuildDatePrefix(crawl.target))
              /\ \E k \in DOMAIN crawl.listing[p.thread_path].divs :
                    LET div == crawl.listing[p.thread_path].divs[k]
                    IN  div.date = p.date /\ div.content = p.content
    /\ \A j \in crawl.fetched :
          NextDayOnlyAt(crawl, j) =>
            /\ \A i \in DOMAIN crawl.collected :
                  crawl.collected[i].thread_path # j
            /\ crawl.idx > j
            /\ (CrawlDone(crawl) /\ j < Len(crawl.listing)) =>
                  j + 1 \in crawl.fetched

\* A returned crawl that met a thread with next-day posts only and
\* collected a target-date post of a thread after it.
C26_Witness ==
    /\ crawl.pc = "returned"
    /\ \E j \in crawl.fetched :
          /\ NextDayOnlyAt(crawl, j)
          /\ \E i \in DOMAIN crawl.collected :
                crawl.collected[i].thread_path > j


-----------------------------------------------------------------------------
(* The bounds of the hit counts (SpecDaily).                               *)

\* C27: for every DailyTermStats row that one process_posts run produces,
\* 1 <= thread_hits <= post_hits <= fetched_posts and thread_hits <=
\* fetched_threads; no row with zero hits is written.
C27_HitCountsAreBounded ==
    lastDaily.kind = "call" =>
        /\ \A id \in DOMAIN lastDaily.term_stats :
              LET row == lastDaily.term_stats[id]
              IN  /\ 1 <= row.thread_hits
                  /\ row.thread_hits <= row.post_hits
                  /\ row.post_hits <= lastDaily.metrics.fetched_posts
                  /\ row.thread_hits <= lastDaily.metrics.fetched_threads
                  /\ ~lastDaily.raised =>
                        /\ <<lastDaily.date, id>> \in DOMAIN dailyStats
                        /\ dailyStats[<<lastDaily.date, id>>] = row
        /\ \A key \in DOMAIN dailyStats :
              /\ key[1] = lastDaily.date
              /\ key[2] \in DOMAIN lastDaily.term_stats
              /\ dailyStats[key].post_hits >= 1
              /\ dailyStats[key].thread_hits >= 1

\* A batch of two threads in which a term has more post hits than thread
\* hits, and as many thread hits as there are threads.
C27_Witness ==
    /\ lastDaily.kind = "call"
    /\ ~lastDaily.raised
    /\ lastDaily.metrics.fetched_threads = 2
    /\ \E key \in DOMAIN dailyStats :
          /\ dailyStats[key].thread_hits = 2
          /\ dailyStats[key].post_hits = 3
          /\ lastDaily.metrics.fetched_posts = 3


-----------------------------------------------------------------------------
(* Success records and the daily metrics (SpecJobWeek).                    *)

\* C28: whenever a run record has status success, the DailyMetrics record
\* of its date is already committed (written by the same run); so every
\* date that the validity gate of a weekly run accepted through status
\* success has a record, and total_posts is the sum of fetched_posts over
\* all the valid dates.
C28_SuccessImpliesCommittedMetrics ==
    /\ \A d \in DOMAIN runs :
          runs[d].status = "success" =>
            /\ d \in DOMAIN dailyMetrics
            /\ dailyMetrics[d].run_id = runs[d].run_id
    /\ (lastWeekly.kind = "call" /\ lastWeekly.returned) =>
          /\ \A d \in lastWeekly.valid_dates :
                /\ d \in DOMAIN lastWeekly.runs
                /\ lastWeekly.runs[d].status = "success"
                /\ d \in DOMAIN dailyMetrics
          /\ lastWeekly.valid_dates # {} =>
                lastWeekly.total_posts =
                    SumOver(lastWeekly.valid_dates,
                            [d \in lastWeekly.valid_dates |->
                                dailyMetrics[d].fetched_posts])

\* A weekly run after a successful job: the date of the job is valid and
\* its collected posts are the total of the week.
C28_Witness ==
    /\ lastJob.kind = "done"
    /\ ~lastJob.raised
    /\ runs[lastJob.target_date].status = "success"
    /\ lastWeekly.kind = "call"
    /\ lastWeekly.returned
    /\ lastJob.target_date \in lastWeekly.valid_dates
    /\ lastWeekly.total_posts = dailyMetrics[lastJob.target_date].fetched_posts
    /\ lastWeekly.total_posts >= 2


-----------------------------------------------------------------------------
(* A job for a date that already has a run record (Spec).                  *)

\* The job is in its except clause after create raised.
JobFailedAtCreation == lastJob.kind = "failing" /\ ~lastJob.record_created

\* C29: a run_daily_collection call for a date that already has a run
\* record fails at the creation of its record, before any crawl or
\* aggregation: the job raises, the existing record keeps its run_id and
\* its status, and the terms, the DailyTermStats rows and the DailyMetrics
\* rows stay as they were.  The record of a date is never replaced by
\* another: there are never two records of one date.  The call takes two
\* steps, the creation that raises and the except clause; both leave the
\* store as it was, and the only step of the job after the first is the
\* except clause, which ends it raising.
C29_SecondRunFailsAtCreation ==
    [][/\ \A d \in DOMAIN runs :
             d \in DOMAIN runs' /\ runs'[d].run_id = runs[d].run_id
       /\ (calls'.jobs # calls.jobs /\ lastJob'.target_date \in DOMAIN runs) =>
             /\ lastJob'.kind = "failing"
             /\ ~lastJob'.record_created
             /\ ~lastJob'.crawled
             /\ ~lastJob'.aggregated
             /\ crawl' = crawl
             /\ runs' = runs
             /\ terms' = terms
             /\ dailyStats' = dailyStats
             /\ dailyMetrics' = dailyMetrics
             /\ lastDaily' = lastDaily
       /\ (JobFailedAtCreation /\ (lastJob' # lastJob \/ crawl' # crawl)) =>
             /\ lastJob'.kind = "done"
             /\ lastJob'.raised
             /\ ~lastJob'.crawled
             /\ ~lastJob'.aggregated
             /\ crawl' = crawl
             /\ runs' = runs
             /\ terms' = terms
             /\ dailyStats' = dailyStats
             /\ dailyMetrics' = dailyMetrics
             /\ lastDaily' = lastDaily
      ]_vars

\* A second job for a date whose first job succeeded and stored rows: it
\* raised without crawling, the record is still the first job's.
C29_Witness ==
    /\ calls.jobs = 2
    /\ lastJob.kind = "done"
    /\ lastJob.raised
    /\ ~lastJob.crawled
    /\ lastJob.status_before = "success"
    /\ runs[lastJob.target_date].status = "success"
    /\ runs[lastJob.target_date].run_id = 1
    /\ lastJob.target_date \in DOMAIN dailyMetrics
    /\ dailyMetrics[lastJob.target_date].run_id = 1
    /\ \E key \in DOMAIN dailyStats : key[1] = lastJob.target_date


-----------------------------------------------------------------------------
(* The term counters of a weekly run (Spec).                               *)

\* C30: a weekly run with a non-empty set of valid dates returns
\* processed_terms + error_terms equal to the number of terms of the weekly
\* aggregation: every aggregated term is counted once, as processed or as
\* error.
C30_EveryAggregatedTermIsCountedOnce ==
    (lastWeekly.kind = "call" /\ lastWeekly.returned
        /\ lastWeekly.valid_dates # {}) =>
      /\ lastWeekly.processed_terms >= 0
      /\ lastWeekly.error_terms >= 0
      /\ lastWeekly.processed_terms + lastWeekly.error_terms =
            Cardinality(DOMAIN lastWeekly.aggregation)

\* A weekly run over two terms of which one was processed and the other
\* counted as error.
C30_Witness ==
    /\ lastWeekly.kind = "call"
    /\ lastWeekly.returned
    /\ lastWeekly.valid_dates # {}
    /\ lastWeekly.processed_terms = 1
    /\ lastWeekly.error_terms = 1
    /\ Cardinality(DOMAIN lastWeekly.aggregation) = 2

=============================================================================
